---- MODULE Spec2Model ----
(***************************************************************************)
(* Model of the iTAV forecasting engine (services/forecast_engine.py) and  *)
(* of its cache-aside collaborator (core/cache.py).                        *)
(*                                                                         *)
(* Python floats are modelled by exact rationals <<n, d>> (d > 0, lowest   *)
(* terms) wherever the code only adds, multiplies, divides and truncates,  *)
(* and by fixed-point numbers of scale PScale for the Erlang-C and exp     *)
(* probabilities.  Float rounding itself is not modelled; float overflow   *)
(* (OverflowError) is.                                                     *)
(***************************************************************************)
EXTENDS Integers, Sequences, FiniteSets, TLC

VARIABLES
    enabled,         \* CacheManager.enabled
    redis,           \* CacheManager.redis is not None
    forecast_store,  \* redis keys forecast:<scenario_hash>  -> entry
    seasonal_store,  \* redis keys seasonal:<data_hash>      -> entry
    model_weights,   \* AdaptiveForecastModel.model_weights of the shared engine
    seasonal_indices,\* SeasonalDecompositionModel.seasonal_indices of the shared engine
    updates,         \* inputs of the update_weights calls made so far, in order
    pc,              \* position of each generate_forecast coroutine
    req,             \* arguments and locals of each generate_forecast call
    steps,           \* per call: the computation steps it has executed
    erl,             \* ErlangCStaffingModel call under test: arguments and result
    helper           \* call of a helper function under test: name, arguments, result

vars == <<enabled, redis, forecast_store, seasonal_store, model_weights,
          seasonal_indices, updates, pc, req, steps, erl, helper>>

-----------------------------------------------------------------------------
(* Arithmetic                                                              *)

Abs(x) == IF x < 0 THEN -x ELSE x
Max(a, b) == IF a >= b THEN a ELSE b
Min(a, b) == IF a <= b THEN a ELSE b

RECURSIVE GCD(_, _)
GCD(a, b) == IF b = 0 THEN a ELSE GCD(b, a % b)

\* the rational n/d in lowest terms with a positive denominator
Rat(n, d) ==
    LET g == GCD(Abs(n), Abs(d))
        s == IF d < 0 THEN -1 ELSE 1
    IN  <<(s * n) \div g, (s * d) \div g>>

RInt(k) == <<k, 1>>
RMul(a, b) ==
    LET g1 == GCD(Abs(a[1]), b[2])
        g2 == GCD(Abs(b[1]), a[2])
        h1 == IF g1 = 0 THEN 1 ELSE g1
        h2 == IF g2 = 0 THEN 1 ELSE g2
    IN  Rat((a[1] \div h1) * (b[1] \div h2), (a[2] \div h2) * (b[2] \div h1))
RAdd(a, b) ==
    LET g == GCD(a[2], b[2])
    IN  Rat(a[1] * (b[2] \div g) + b[1] * (a[2] \div g), (a[2] \div g) * b[2])
RNeg(a) == <<-a[1], a[2]>>
RSub(a, b) == RAdd(a, RNeg(b))
RDiv(a, b) == RMul(a, IF b[1] < 0 THEN <<-b[2], -b[1]>> ELSE <<b[2], b[1]>>)
RSign(a) == IF a[1] > 0 THEN 1 ELSE IF a[1] < 0 THEN -1 ELSE 0
RLt(a, b) == RSign(RSub(a, b)) < 0
RLe(a, b) == RSign(RSub(a, b)) <= 0

\* Python int(x): truncation toward zero
Trunc(a) == IF a[1] >= 0 THEN a[1] \div a[2] ELSE -((-a[1]) \div a[2])
\* math.ceil(x)
Ceil(a) == -((-a[1]) \div a[2])

\* floor(a * b / c) for 0 <= a < 2^20, 0 <= b, 0 < c < 2^26, without forming
\* a * b: <<quotient, remainder>> by long multiplication over the hexadecimal
\* digits of a
RECURSIVE MulDivQR(_, _, _)
MulDivQR(a, b, c) ==
    IF a = 0 THEN <<0, 0>>
    ELSE LET h == MulDivQR(a \div 16, b, c)
             r == 16 * h[2] + (a % 16) * (b % c)
         IN  <<16 * h[1] + (a % 16) * (b \div c) + r \div c, r % c>>
MulDiv(a, b, c) == MulDivQR(a, b, c)[1]

-----------------------------------------------------------------------------
(* ErlangCStaffingModel                                                    *)

\* scale of the fixed-point probabilities: p is stored as floor(p * PScale)
PScale == 100000
\* floor(exp(-1) * PScale)
ExpM1 == 36788
\* number of Taylor terms of exp(-f), 0 <= f < 1 (1/9! < 1/PScale)
ExpTerms == 9
\* exp(-x) < 1/PScale from this x on
ExpCut == 12

\* largest n with n! below the largest double: float / math.factorial(n)
\* raises OverflowError for n > 170
MaxFloatFactorial == 170
\* 2^15 <= mantissa < 2^16; the largest double is just below 2^1024
MantissaBits == 15
MaxFloatExp == 1024

Pow2(n) == 2 ^ n

\* <<m, e>> with m * 2^e the value, renormalised to m < 2^(MantissaBits+1)
Normalise(m, e) ==
    LET s == CHOOSE s \in 0..(MantissaBits + 1) :
                /\ m \div Pow2(s) < Pow2(MantissaBits + 1)
                /\ s > 0 => m \div Pow2(s - 1) >= Pow2(MantissaBits + 1)
    IN  <<m \div Pow2(s), e + s>>

\* one multiplication by t/q of the value m * 2^e
PowStep(me, t, q) == Normalise((me[1] * t) \div q, me[2])

\* me multiplied k times by t/q, stopping once the exponent is out of range
\* (in two halves: the first is complete before the second starts, so that
\* the nesting of the evaluation is logarithmic in k)
RECURSIVE PowSteps(_, _, _, _)
PowSteps(me, t, q, k) ==
    IF k = 0 THEN me
    ELSE IF k = 1 THEN PowStep(me, t, q)
    ELSE LET half == PowSteps(me, t, q, k \div 2)
         IN  IF half[2] + MantissaBits >= MaxFloatExp THEN half
             ELSE PowSteps(half, t, q, k - k \div 2)

\* traffic ** agents raises OverflowError: (t/q)^k >= 2^1024, for t/q > 1, on
\* a (MantissaBits+1)-bit mantissa
PowExceeds(t, q, k) ==
    PowSteps(<<Pow2(MantissaBits), -MantissaBits>>, t, q, k)[2] + MantissaBits >= MaxFloatExp

\* the OverflowError of lines 155-158: traffic ** agents, or the conversion of
\* factorial(agents) to float
ErlangOverflows(agents, traffic) ==
    \/ agents > MaxFloatFactorial
    \/ /\ traffic[1] > traffic[2]
       /\ PowExceeds(traffic[1], traffic[2], agents)

\* the Erlang-B blocking probability B(k) = (T^k/k!) / sum_{j<=k} T^j/j!, scaled,
\* from B(k-1): B(k) = T*B(k-1) / (k + T*B(k-1)), T = t/q
ErlangBStep(b, t, q, k) ==
    MulDiv(PScale, (t * b) \div q, k * PScale + (t * b) \div q)

\* B(hi) from b = B(lo - 1), in two halves (a blocking probability of 0 stays 0)
RECURSIVE ErlangBRange(_, _, _, _, _)
ErlangBRange(b, t, q, lo, hi) ==
    IF lo > hi THEN b
    ELSE IF lo = hi THEN ErlangBStep(b, t, q, lo)
    ELSE LET half == ErlangBRange(b, t, q, lo, (lo + hi) \div 2)
         IN  IF half = 0 THEN 0
             ELSE ErlangBRange(half, t, q, (lo + hi) \div 2 + 1, hi)

ErlangB(t, q, k) == ErlangBRange(PScale, t, q, 1, k)

\* numerator / denominator of lines 155-160 is, with P = T^A/A! and
\* B = P / sum_{k<=A} T^k/k!, the number A*B / (A - T*(1 - B)); OverflowError
\* and ZeroDivisionError give 0.0
_erlang_c_probability(agents, traffic) ==
    LET tn == traffic[1]
        td == traffic[2]
    IN  IF ErlangOverflows(agents, traffic) THEN 0
        ELSE IF agents * td = tn THEN 0
        ELSE LET eb == ErlangB(tn, td, agents)
             IN  MulDiv(eb, agents * PScale,
                        agents * PScale - (tn * (PScale - eb)) \div td)

RECURSIVE ExpTaylor(_, _, _, _, _)
ExpTaylor(term, sum, fn, fd, j) ==
    IF j > ExpTerms THEN sum
    ELSE LET nt == MulDiv(term, fn, fd * j)
         IN  ExpTaylor(nt, IF j % 2 = 1 THEN sum - nt ELSE sum + nt, fn, fd, j + 1)

RECURSIVE ExpScale(_, _)
ExpScale(v, k) == IF k = 0 THEN v ELSE ExpScale(MulDiv(v, ExpM1, PScale), k - 1)

\* math.exp(-x) for a rational x >= 0, scaled
ExpNeg(x) ==
    LET k == x[1] \div x[2]
        f == x[1] % x[2]
    IN  IF k >= ExpCut THEN 0
        ELSE ExpScale(ExpTaylor(PScale, PScale, f, x[2], 1), k)

\* prob_within_target of lines 134-139 for agents > traffic_intensity, scaled
ProbWithinTarget(agents, traffic, avg_handle_time, target_answer_time) ==
    LET x == RDiv(RMul(RSub(RInt(agents), traffic), RInt(target_answer_time)),
                  avg_handle_time)
    IN  PScale - MulDiv(_erlang_c_probability(agents, traffic), ExpNeg(x), PScale)

max_iterations == 100

NoProb == -1

\* the state after the pass that computed prob_within_target = p (lines 141-144)
SearchNext(st, p, tsl) ==
    IF p * tsl[2] >= tsl[1] * PScale
    THEN [agents |-> st.agents, last |-> p, done |-> TRUE]
    ELSE [agents |-> st.agents + 1, last |-> p, done |-> FALSE]

\* a pass that skips the `agents <= traffic_intensity` test of lines 129-131
SearchStepUnchecked(st, traffic, aht, tsl, tat) ==
    IF st.done THEN st
    ELSE SearchNext(st, ProbWithinTarget(st.agents, traffic, aht, tat), tsl)

\* one pass of the loop body of lines 128-144 on the loop state
\* [agents, last (prob_within_target or NoProb), done (the break was taken)]
SearchStep(st, traffic, aht, tsl, tat) ==
    IF st.done THEN st
    ELSE IF RLe(RInt(st.agents), traffic) THEN [st EXCEPT !.agents = @ + 1]
    ELSE SearchNext(st, ProbWithinTarget(st.agents, traffic, aht, tat), tsl)

\* n passes of the loop, in two halves
RECURSIVE SearchSteps(_, _, _, _, _, _)
SearchSteps(st, n, traffic, aht, tsl, tat) ==
    IF n = 0 THEN st
    ELSE IF n = 1 THEN SearchStep(st, traffic, aht, tsl, tat)
    ELSE LET half == SearchSteps(st, n \div 2, traffic, aht, tsl, tat)
         IN  IF half.done THEN half
             ELSE SearchSteps(half, n - n \div 2, traffic, aht, tsl, tat)

\* the loop of lines 128-144: the state it ends in
AgentSearch(agents, traffic, aht, tsl, tat) ==
    SearchSteps([agents |-> agents, last |-> NoProb, done |-> FALSE],
                max_iterations, traffic, aht, tsl, tat)

\* traffic_intensity = (call_volume * avg_handle_time) / 60
TrafficIntensity(call_volume, avg_handle_time) ==
    RDiv(RMul(RInt(call_volume), avg_handle_time), RInt(60))

\* the returned triple with 0.0 for the service level when the loop ran out
StaffingResultNoLevel(st, traffic_intensity) ==
    [agents |-> st.agents,
     utilization |-> IF st.agents > 0 THEN RDiv(traffic_intensity, RInt(st.agents))
                     ELSE RInt(0),
     achieved_service_level |-> IF st.last = NoProb \/ ~st.done THEN 0 ELSE st.last]

\* lines 146-149: utilization and the returned triple, st the state the loop
\* ended in (achieved_service_level is the last prob_within_target computed,
\* 0.0 if none was)
StaffingResult(st, traffic_intensity) ==
    [agents |-> st.agents,
     utilization |-> IF st.agents > 0 THEN RDiv(traffic_intensity, RInt(st.agents))
                     ELSE RInt(0),
     achieved_service_level |-> IF st.last = NoProb THEN 0 ELSE st.last]

\* lines 120-149 with no agent returned for a traffic intensity of 0
StaffingForNoAgent(traffic_intensity, avg_handle_time, target_service_level, target_answer_time) ==
    IF RSign(traffic_intensity) <= 0
    THEN [agents |-> 0, utilization |-> RInt(0), achieved_service_level |-> 0]
    ELSE StaffingResult(AgentSearch(Max(1, Ceil(traffic_intensity)), traffic_intensity,
                                    avg_handle_time, target_service_level,
                                    target_answer_time),
                        traffic_intensity)

\* lines 120-149 for the traffic intensity computed at line 118
StaffingFor(traffic_intensity, avg_handle_time, target_service_level, target_answer_time) ==
    IF RSign(traffic_intensity) <= 0
    THEN [agents |-> 1, utilization |-> RInt(0), achieved_service_level |-> PScale]
    ELSE StaffingResult(AgentSearch(Max(1, Ceil(traffic_intensity)), traffic_intensity,
                                    avg_handle_time, target_service_level,
                                    target_answer_time),
                        traffic_intensity)

\* calculate_required_agents with the comparison of line 114 turned round
calculate_required_agents_sign(call_volume, avg_handle_time, target_service_level, target_answer_time) ==
    IF call_volume >= 0 \/ RSign(avg_handle_time) <= 0
    THEN [agents |-> 0, utilization |-> RInt(0), achieved_service_level |-> 0]
    ELSE StaffingFor(TrafficIntensity(call_volume, avg_handle_time), avg_handle_time,
                     target_service_level, target_answer_time)
\* calculate_required_agents: [agents, utilization (rational),
\* achieved_service_level (scaled)]
calculate_required_agents(call_volume, avg_handle_time, target_service_level, target_answer_time) ==
    IF call_volume <= 0 \/ RSign(avg_handle_time) <= 0
    THEN [agents |-> 0, utilization |-> RInt(0), achieved_service_level |-> 0]
    ELSE StaffingFor(TrafficIntensity(call_volume, avg_handle_time), avg_handle_time,
                     target_service_level, target_answer_time)


-----------------------------------------------------------------------------
(* Dates                                                                   *)

\* a date is <<year, month, day>>
IsLeap(y) == (y % 4 = 0 /\ y % 100 # 0) \/ y % 400 = 0
DaysInMonth(y, m) ==
    IF m = 2 THEN (IF IsLeap(y) THEN 29 ELSE 28)
    ELSE IF m \in {4, 6, 9, 11} THEN 30 ELSE 31

\* base_date + relativedelta(months=k) without the carry into the year
AddMonthsNoCarry(d, k) ==
    <<d[1], ((d[2] - 1 + k) % 12) + 1, Min(d[3], DaysInMonth(d[1], ((d[2] - 1 + k) % 12) + 1))>>

\* d + relativedelta(months=k), k >= 0: the day is clipped to the month's end
AddMonths(d, k) ==
    LET t == d[2] - 1 + k
        y == d[1] + t \div 12
        m == (t % 12) + 1
    IN  <<y, m, Min(d[3], DaysInMonth(y, m))>>

\* forecast_month.strftime('%Y-%m'): the label keeps year and month
MonthLabel(d) == <<d[1], d[2]>>

-----------------------------------------------------------------------------
(* Configuration (core/config.py)                                          *)

CACHE_TTL == 3600

\* settings.MEDICARE_SEASONAL_FACTORS: months and call_multiplier per period
MEDICARE_SEASONAL_FACTORS ==
    << [months |-> {10, 11, 12}, call_multiplier |-> <<21, 10>>],
       [months |-> {1},          call_multiplier |-> <<8, 5>>],
       [months |-> {6, 7, 8},    call_multiplier |-> <<3, 4>>] >>

\* settings.SEGMENT_CALL_RATES, per 1000 members
SEGMENT_CALL_RATES ==
    [seg \in {"Highly Engaged", "Reactive Engagers", "Content & Complacent", "Unengaged"} |->
        CASE seg = "Highly Engaged" -> 85
          [] seg = "Reactive Engagers" -> 145
          [] seg = "Content & Complacent" -> 95
          [] seg = "Unengaged" -> 180]

DefaultSegmentRate == 120

-----------------------------------------------------------------------------
(* SegmentImpactModel                                                      *)

RECURSIVE RSum(_, _)
\* sum of f[x] over the finite set S, f[x] rational
RSum(f, S) ==
    IF S = {} THEN RInt(0)
    ELSE LET x == CHOOSE y \in S : TRUE
         IN  RAdd(f[x], RSum(f, S \ {x}))

\* sum of f[i] over the i of S in lo..hi (summed in two halves)
RECURSIVE RSumRange(_, _, _, _)
RSumRange(f, S, lo, hi) ==
    IF lo > hi THEN RInt(0)
    ELSE IF lo = hi THEN (IF lo \in S THEN f[lo] ELSE RInt(0))
    ELSE RAdd(RSumRange(f, S, lo, (lo + hi) \div 2),
              RSumRange(f, S, (lo + hi) \div 2 + 1, hi))

\* adjustment_map with the adjustments of the last two segments interchanged
AdjustmentMapSwapped(segment_adjustments) ==
    [seg \in {"Highly Engaged", "Reactive Engagers", "Content & Complacent", "Unengaged"} |->
        CASE seg = "Highly Engaged" -> segment_adjustments.highly_engaged
          [] seg = "Reactive Engagers" -> segment_adjustments.reactive_engagers
          [] seg = "Content & Complacent" -> segment_adjustments.unengaged
          [] seg = "Unengaged" -> segment_adjustments.content_complacent]

\* adjustment_map of lines 187-192
AdjustmentMap(segment_adjustments) ==
    [seg \in {"Highly Engaged", "Reactive Engagers", "Content & Complacent", "Unengaged"} |->
        CASE seg = "Highly Engaged" -> segment_adjustments.highly_engaged
          [] seg = "Reactive Engagers" -> segment_adjustments.reactive_engagers
          [] seg = "Content & Complacent" -> segment_adjustments.content_complacent
          [] seg = "Unengaged" -> segment_adjustments.unengaged]

\* calculate_segment_impact: member_distribution maps segment names to
\* (rational) member counts
calculate_segment_impact(member_distribution, segment_adjustments) ==
    LET segs == DOMAIN member_distribution
        total_members == RSum(member_distribution, segs)
        adjustment_map == AdjustmentMap(segment_adjustments)
        term == [seg \in segs |->
                    LET base_rate == IF seg \in DOMAIN SEGMENT_CALL_RATES
                                     THEN SEGMENT_CALL_RATES[seg]
                                     ELSE DefaultSegmentRate
                        adjustment == IF seg \in DOMAIN adjustment_map
                                      THEN adjustment_map[seg] ELSE RInt(0)
                        adjusted_rate == RMul(RInt(base_rate),
                                              RAdd(RInt(1), RDiv(adjustment, RInt(100))))
                        weight == RDiv(member_distribution[seg], total_members)
                    IN  RMul(adjusted_rate, weight)]
    IN  IF RSign(total_members) = 0 THEN RInt(0)
        ELSE RDiv(RSum(term, segs), RInt(1000))


-----------------------------------------------------------------------------
(* Inputs: scenarios (schemas/forecast.py) and historical data             *)

\* bounds of the model
MaxMonths == 2        \* largest scenario.forecast_months explored
MCIterations == 2     \* scenario.monte_carlo_iterations explored
NumRequests == 2      \* generate_forecast calls per behaviour
MaxUpdates == 1       \* update_weights calls between the engine's requests
MaxWeightUpdates == 2 \* update_weights calls on an AdaptiveForecastModel on its own

DefaultSegmentAdjustments ==
    [highly_engaged |-> RInt(0), reactive_engagers |-> RInt(0),
     content_complacent |-> RInt(0), unengaged |-> RInt(0)]
DefaultCallVolumeFactors ==
    [seasonal_factor |-> RInt(1), engagement_impact |-> RInt(1),
     product_mix_impact |-> RInt(1), regulatory_impact |-> RInt(1)]
\* StaffingParameters with avg_handle_time 6.0 (the other fields at their defaults)
BaseStaffingParameters ==
    [avg_handle_time |-> <<6, 1>>, hours_per_agent |-> 160,
     utilization_target |-> <<17, 20>>, supervisor_ratio |-> <<3, 25>>,
     target_service_level |-> <<4, 5>>, target_answer_time |-> 20]
DefaultRegulatoryChanges ==
    [benefit_changes |-> FALSE, formulary_updates |-> FALSE,
     network_changes |-> FALSE, premium_changes |-> FALSE]

\* a ForecastScenarioCreate within the schema's constraints, except that
\* monte_carlo_iterations (at least 100 in the schema) is kept to MCIterations
BaseScenario ==
    [name |-> "baseline", description |-> "d1", base_month |-> <<2026, 11, 1>>,
     forecast_months |-> MaxMonths, member_growth_rate |-> <<5, 2>>,
     segment_adjustments |-> DefaultSegmentAdjustments,
     call_volume_factors |-> DefaultCallVolumeFactors,
     staffing_parameters |-> BaseStaffingParameters,
     regulatory_changes |-> DefaultRegulatoryChanges,
     monte_carlo_iterations |-> MCIterations, confidence_level |-> <<9, 10>>]

ScenarioFields ==
    {"name", "description", "base_month", "forecast_months", "member_growth_rate",
     "segment_adjustments", "call_volume_factors", "staffing_parameters",
     "regulatory_changes", "monte_carlo_iterations", "confidence_level"}

\* BaseScenario with one field changed to another valid value
Variant(field) ==
    CASE field = "name" -> [BaseScenario EXCEPT !.name = "optimistic"]
      [] field = "description" -> [BaseScenario EXCEPT !.description = "d2"]
      [] field = "base_month" -> [BaseScenario EXCEPT !.base_month = <<2026, 12, 1>>]
      [] field = "forecast_months" -> [BaseScenario EXCEPT !.forecast_months = 1]
      [] field = "member_growth_rate" -> [BaseScenario EXCEPT !.member_growth_rate = RInt(10)]
      [] field = "segment_adjustments" ->
            [BaseScenario EXCEPT !.segment_adjustments.unengaged = RInt(20)]
      [] field = "call_volume_factors" ->
            [BaseScenario EXCEPT !.call_volume_factors.regulatory_impact = <<3, 2>>]
      [] field = "staffing_parameters" ->
            [BaseScenario EXCEPT !.staffing_parameters.target_answer_time = 60]
      [] field = "regulatory_changes" ->
            [BaseScenario EXCEPT !.regulatory_changes.benefit_changes = TRUE]
      [] field = "monte_carlo_iterations" ->
            [BaseScenario EXCEPT !.monte_carlo_iterations = MCIterations + 1]
      [] field = "confidence_level" -> [BaseScenario EXCEPT !.confidence_level = <<19, 20>>]



\* A historical DataFrame: its rows (date, total_members, total_calls,
\* avg_handle_time), and what the third-party routines make of it:
\*   seasonal   what statsmodels' seasonal_decompose gives as monthly means of
\*              the seasonal component (used when len >= 24),
\*   anomalies  how many rows IsolationForest flags (used when len >= 10),
\*   detect_raises  whether feature engineering raises on this frame,
\*   missing    number of null cells, outliers number of values beyond the
\*              1st/99th percentile per numeric column.
Row(i, members, calls) ==
    [date |-> AddMonths(<<2024, 1, 1>>, i - 1), total_members |-> members,
     total_calls |-> calls, avg_handle_time |-> <<6, 1>>]


HistData(id) ==
    CASE id = "empty" ->
            [rows |-> <<>>, seasonal |-> [m \in 1..12 |-> RInt(0)], anomalies |-> 0,
             detect_raises |-> FALSE, missing |-> 0, outliers |-> <<0, 0, 0>>]
      [] id = "short" ->
            [rows |-> [i \in 1..12 |-> Row(i, IF i < 12 THEN 1000 ELSE 1100, 100 + 5 * i)],
             seasonal |-> [m \in 1..12 |-> RInt(0)], anomalies |-> 1,
             detect_raises |-> FALSE, missing |-> 2, outliers |-> <<2, 2, 0>>]
      [] id = "long" ->
            [rows |-> [i \in 1..24 |-> Row(i, IF i <= 12 THEN 1000 ELSE 1200, 150 + 10 * (i % 12))],
             seasonal |-> [m \in 1..12 |-> IF m = 12 THEN <<1, 2>>
                                           ELSE IF m = 1 THEN <<-3, 2>> ELSE RInt(0)],
             anomalies |-> 3, detect_raises |-> FALSE, missing |-> 0,
             outliers |-> <<2, 2, 0>>]
      [] id = "broken" ->
            [rows |-> [i \in 1..12 |-> Row(i, 0, 100 + 5 * i)],
             seasonal |-> [m \in 1..12 |-> RInt(0)], anomalies |-> 0,
             detect_raises |-> TRUE, missing |-> 12, outliers |-> <<2, 2, 0>>]
      [] id = "sample_a" ->
            [rows |-> [i \in 1..18 |-> Row(i, IF i < 18 THEN 8000 ELSE 10000, 1200 + 10 * i)],
             seasonal |-> [m \in 1..12 |-> RInt(0)], anomalies |-> 2,
             detect_raises |-> FALSE, missing |-> 0, outliers |-> <<2, 2, 0>>]
      [] id = "sample_b" ->
            [rows |-> [i \in 1..18 |-> Row(i, IF i < 18 THEN 12000 ELSE 9000, 2000 - 20 * i)],
             seasonal |-> [m \in 1..12 |-> RInt(0)], anomalies |-> 2,
             detect_raises |-> FALSE, missing |-> 0, outliers |-> <<2, 2, 0>>]

\* historical_data arguments of a call: None, or a frame
NoHist == "None"
\* the <<scenario, historical_data>> arguments of the calls the engine serves
EngineCalls ==
    {<<BaseScenario, "short">>, <<Variant("description"), "short">>,
     <<Variant("forecast_months"), "long">>, <<BaseScenario, "broken">>}
\* frames _load_historical_data can return (18 rows of random values)
SampleHists == {"sample_a", "sample_b"}


-----------------------------------------------------------------------------
(* ForecastEngine: the synchronous computations                            *)

RECURSIVE RPow(_, _)
RPow(a, k) == IF k = 0 THEN RInt(1) ELSE RMul(a, RPow(a, k - 1))

Last(seq) == seq[Len(seq)]

\* _calculate_growth_trend
_calculate_growth_trend(rows) ==
    LET idx == {i \in 2..Len(rows) : rows[i - 1].total_members > 0}
        rate == [i \in idx |->
                    Rat(rows[i].total_members - rows[i - 1].total_members,
                        rows[i - 1].total_members)]
    IN  IF Len(rows) < 3 \/ idx = {} THEN <<1, 40>>
        ELSE RDiv(RSumRange(rate, idx, 2, Len(rows)), RInt(Cardinality(idx)))

\* _calculate_base_metrics
_calculate_base_metrics(rows) ==
    IF Len(rows) = 0
    THEN [base_members |-> RInt(10000), base_calls_per_member |-> <<3, 20>>,
          base_handle_time |-> <<31, 5>>, growth_trend |-> <<1, 40>>]
    ELSE LET latest_data == Last(rows)
         IN  [base_members |-> RInt(latest_data.total_members),
              base_calls_per_member |->
                  Rat(latest_data.total_calls, Max(latest_data.total_members, 1)),
              base_handle_time |-> latest_data.avg_handle_time,
              growth_trend |-> _calculate_growth_trend(rows)]

\* a fallback of 1.0 for every month in place of 0.0
UnitIndices == [m \in 1..12 |-> RInt(1)]

\* the fallback of line 481 and of _simple_seasonal_pattern
FlatIndices == [m \in 1..12 |-> RInt(0)]

\* _get_medicare_seasonal_multiplier
_get_medicare_seasonal_multiplier(month) ==
    LET hit == {i \in 1..Len(MEDICARE_SEASONAL_FACTORS) :
                    month \in MEDICARE_SEASONAL_FACTORS[i].months}
    IN  IF hit = {} THEN RInt(1)
        ELSE MEDICARE_SEASONAL_FACTORS[CHOOSE i \in hit : \A j \in hit : i <= j].call_multiplier

NoBand == [none |-> TRUE]

\* lines 545-550
DefaultDistribution(predicted_members) ==
    [seg \in DOMAIN SEGMENT_CALL_RATES |->
        RMul(RInt(predicted_members),
             CASE seg = "Highly Engaged" -> <<1, 4>>
               [] seg = "Reactive Engagers" -> <<7, 20>>
               [] seg = "Content & Complacent" -> <<1, 4>>
               [] seg = "Unengaged" -> <<3, 20>>)]

\* lines 537-543 and 558-565
TotalVolumeFactor(month_num, f, indices) ==
    RMul(RMul(RMul(RMul(RMul(f.seasonal_factor, f.engagement_impact),
                        f.product_mix_impact), f.regulatory_impact),
              RAdd(RInt(1), IF month_num \in DOMAIN indices
                            THEN indices[month_num] ELSE RInt(0))),
         _get_medicare_seasonal_multiplier(month_num))

\* lines 578-589: the ForecastResult of the month
MonthResult(forecast_month, predicted_members, calls_per_member, predicted_calls, staffing, supervisor_ratio) ==
    [month |-> MonthLabel(forecast_month),
     predicted_members |-> predicted_members,
     predicted_calls |-> predicted_calls,
     calls_per_member |-> calls_per_member,
     required_staff |-> staffing.agents,
     required_supervisors |->
         Max(1, Trunc(RMul(RInt(staffing.agents), supervisor_ratio))),
     agent_utilization |-> staffing.utilization,
     service_level |-> staffing.achieved_service_level,
     members_confidence |-> NoBand,
     calls_confidence |-> NoBand,
     staff_confidence |-> NoBand]

\* lines 570-589, from predicted_calls on
MonthStaffing(forecast_month, scenario, predicted_members, calls_per_member, predicted_calls) ==
    MonthResult(forecast_month, predicted_members, calls_per_member, predicted_calls,
                calculate_required_agents(predicted_calls,
                    scenario.staffing_parameters.avg_handle_time,
                    scenario.staffing_parameters.target_service_level,
                    scenario.staffing_parameters.target_answer_time),
                scenario.staffing_parameters.supervisor_ratio)

\* lines 567-589, from calls_per_member on
MonthCalls(forecast_month, scenario, indices, predicted_members, calls_per_member) ==
    MonthStaffing(forecast_month, scenario, predicted_members, calls_per_member,
                  Trunc(RMul(RMul(RInt(predicted_members), calls_per_member),
                             TotalVolumeFactor(forecast_month[2],
                                               scenario.call_volume_factors, indices))))

\* lines 537-589, from predicted_members on
MonthMembers(forecast_month, scenario, indices, predicted_members) ==
    MonthCalls(forecast_month, scenario, indices, predicted_members,
               calculate_segment_impact(DefaultDistribution(predicted_members),
                                        scenario.segment_adjustments))

\* _forecast_single_month; indices is decomposition['seasonal_indices']
_forecast_single_month(forecast_month, month_offset, scenario, base_metrics, indices) ==
    MonthMembers(forecast_month, scenario, indices,
        Trunc(RMul(base_metrics.base_members,
                   RPow(RAdd(RInt(1), RDiv(scenario.member_growth_rate, RInt(100))),
                        month_offset))))

\* the loop of lines 411-423
ForecastMonths(scenario, base_metrics, indices) ==
    [month_offset \in 1..scenario.forecast_months |->
        _forecast_single_month(AddMonths(scenario.base_month, month_offset), month_offset,
                               scenario, base_metrics, indices)]


-----------------------------------------------------------------------------
(* MonteCarloSimulator                                                     *)

\* One iteration's draws of np.random.normal: growth_rate_var (percentage
\* points), seasonality_var and handle_time_var (multipliers).
Draw(g, sv, hv) == [growth_rate_var |-> g, seasonality_var |-> sv, handle_time_var |-> hv]
\* _run_monte_carlo's base_scenario_dict
BaseScenarioDict(scenario, base_metrics) ==
    [forecast_months |-> scenario.forecast_months,
     member_growth_rate |-> scenario.member_growth_rate,
     base_members |-> base_metrics.base_members,
     calls_per_member |-> base_metrics.base_calls_per_member,
     avg_handle_time |-> scenario.staffing_parameters.avg_handle_time,
     seasonality_factor |-> scenario.call_volume_factors.seasonal_factor]

\* lines 230-233: the copy of base_scenario with the draws applied
ModifiedScenario(base_scenario, draw) ==
    [base_scenario EXCEPT
        !.member_growth_rate = RAdd(@, draw.growth_rate_var),
        !.seasonality_factor = RMul(@, draw.seasonality_var),
        !.avg_handle_time = RMul(@, draw.handle_time_var)]

\* lines 274-278: the month's entries, from calls on
IterationStaff(scenario, members, calls) ==
    [predicted_members |-> members, predicted_calls |-> calls,
     required_staff |->
         Max(1, Trunc(RDiv(RMul(RInt(calls), scenario.avg_handle_time), RInt(8000))))]

\* lines 273-278: the month's entries, from members on
IterationCalls(scenario, members) ==
    IterationStaff(scenario, members,
                   Trunc(RMul(RInt(members), scenario.calls_per_member)))

\* _single_iteration: per month the members, calls and staff appended
_single_iteration(scenario) ==
    [month \in 1..scenario.forecast_months |->
        IterationCalls(scenario,
            Trunc(RMul(scenario.base_members,
                       RPow(RAdd(RInt(1), RDiv(scenario.member_growth_rate, RInt(100))),
                            month))))]

\* insertion of x into the ascending sequence seq
RECURSIVE Insert(_, _)
Insert(x, seq) ==
    IF seq = <<>> THEN <<x>>
    ELSE IF x <= Head(seq) THEN <<x>> \o seq
    ELSE <<Head(seq)>> \o Insert(x, Tail(seq))
RECURSIVE Sorted(_)
Sorted(seq) == IF seq = <<>> THEN <<>> ELSE Insert(Head(seq), Sorted(Tail(seq)))

\* the interpolation of np.percentile on the sample as it stands, not sorted
PercentileUnsorted(arr, p) ==
    LET n == Len(arr)
        pos == (n - 1) * p
        lo == pos \div 100
        rem == pos % 100
    IN  IF rem = 0 THEN RInt(arr[lo + 1])
        ELSE RAdd(RInt(arr[lo + 1]), Rat((arr[lo + 2] - arr[lo + 1]) * rem, 100))

\* np.percentile(arr, p) of the integer sample arr (linear interpolation)
Percentile(arr, p) ==
    LET srt == Sorted(arr)
        n == Len(srt)
        pos == (n - 1) * p
        lo == pos \div 100
        rem == pos % 100
    IN  IF rem = 0 THEN RInt(srt[lo + 1])
        ELSE RAdd(RInt(srt[lo + 1]), Rat((srt[lo + 2] - srt[lo + 1]) * rem, 100))

MCMetrics == {"predicted_members", "predicted_calls", "required_staff"}
MCPercentiles == [p10 |-> 10, p25 |-> 25, median |-> 50, p75 |-> 75, p90 |-> 90]

\* the scenario of iteration i when the draws are applied to base_scenario
\* itself and add up from one iteration to the next
RECURSIVE AccumulatedScenario(_, _, _)
AccumulatedScenario(base_scenario, draws, i) ==
    IF i = 0 THEN base_scenario
    ELSE ModifiedScenario(AccumulatedScenario(base_scenario, draws, i - 1), draws[i])

\* run_forecast_simulation without the copy of line 230
run_forecast_simulation_in_place(base_scenario, draws) ==
    LET iteration_result ==
            [i \in 1..Len(draws) |->
                _single_iteration(AccumulatedScenario(base_scenario, draws, i))]
    IN  IF Len(draws) = 0 THEN [key \in {} |-> 0]
        ELSE [key \in MCMetrics |->
                [pname \in DOMAIN MCPercentiles |->
                    [month \in 1..base_scenario.forecast_months |->
                        Percentile([i \in 1..Len(draws) |-> iteration_result[i][month][key]],
                                   MCPercentiles[pname])]]]

\* run_forecast_simulation: draws is the sequence of the iterations' draws;
\* the result maps metric -> percentile name -> month -> value
run_forecast_simulation(base_scenario, draws) ==
    LET iteration_result ==
            [i \in 1..Len(draws) |->
                _single_iteration(ModifiedScenario(base_scenario, draws[i]))]
    IN  IF Len(draws) = 0 THEN [key \in {} |-> 0]
        ELSE [key \in MCMetrics |->
                [pname \in DOMAIN MCPercentiles |->
                    [month \in 1..base_scenario.forecast_months |->
                        Percentile([i \in 1..Len(draws) |-> iteration_result[i][month][key]],
                                   MCPercentiles[pname])]]]

\* _apply_confidence_intervals: the bands of the i-th result
Band(confidence_intervals, key, i) ==
    [pname \in {"p10", "p25", "p75", "p90"} |-> Trunc(confidence_intervals[key][pname][i])]

_apply_confidence_intervals(forecast_results, confidence_intervals) ==
    [i \in 1..Len(forecast_results) |->
        IF /\ "predicted_members" \in DOMAIN confidence_intervals
           /\ i <= Len(confidence_intervals["predicted_members"]["p25"])
        THEN [forecast_results[i] EXCEPT
                !.members_confidence = Band(confidence_intervals, "predicted_members", i),
                !.calls_confidence = Band(confidence_intervals, "predicted_calls", i),
                !.staff_confidence = Band(confidence_intervals, "required_staff", i)]
        ELSE forecast_results[i]]

-----------------------------------------------------------------------------
(* Data quality, scenario hash                                             *)

RECURSIVE SumSeq(_)
SumSeq(seq) == IF seq = <<>> THEN 0 ELSE Head(seq) + SumSeq(Tail(seq))

\* columns of the historical frame: date, total_members, total_calls, avg_handle_time
NumColumns == 4

\* the score returned as it stands, without line 675
Unclamped(score) == score

\* line 675: max(0.0, min(1.0, score))
ClampUnit(score) ==
    IF RLt(score, RInt(0)) THEN RInt(0)
    ELSE IF RLt(RInt(1), score) THEN RInt(1) ELSE score

\* lines 663-665
ShortDataPenalty(score, n) ==
    IF n < 12 THEN RSub(score, RMul(RInt(12 - n), <<1, 20>>)) ELSE score

\* _calculate_data_quality_score
_calculate_data_quality_score(data) ==
    IF Len(data.rows) = 0 THEN RInt(0)
    ELSE ClampUnit(
            RSub(ShortDataPenalty(
                    RSub(RInt(1), RMul(Rat(data.missing, Len(data.rows) * NumColumns),
                                       <<3, 10>>)),
                    Len(data.rows)),
                 RMul(Rat(SumSeq(data.outliers), Len(data.rows)), <<1, 10>>)))

\* _generate_scenario_hash: md5 of the formatted fields; md5 and the
\* formatting are one-to-one on these values (hash collisions aside), so the
\* hash is the tuple of the fields the f-string of lines 679-683 names
_generate_scenario_hash(scenario) ==
    <<scenario.name, scenario.base_month, scenario.forecast_months,
      scenario.member_growth_rate, scenario.segment_adjustments,
      scenario.call_volume_factors, scenario.staffing_parameters,
      scenario.monte_carlo_iterations>>

\* data_hash of line 468: md5 over the frame's bytes
DataHash(data) == data.rows

-----------------------------------------------------------------------------
(* AdaptiveForecastModel                                                   *)

Components == {"seasonal", "trend", "growth", "ml_prediction"}

\* model_weights of __init__
InitialWeights ==
    [c \in Components |->
        CASE c = "seasonal" -> <<2, 5>>
          [] c = "trend" -> <<3, 10>>
          [] c = "growth" -> <<1, 5>>
          [] c = "ml_prediction" -> <<1, 10>>]

\* errors are rationals; recent_accuracy maps some of the keys seasonal_error,
\* trend_error, growth_error, ml_error (and possibly others) to errors
ErrorKey(c) ==
    CASE c = "seasonal" -> "seasonal_error"
      [] c = "trend" -> "trend_error"
      [] c = "growth" -> "growth_error"
      [] c = "ml_prediction" -> "ml_error"

\* _calculate_component_errors with a default of 0.01 for an absent key
_calculate_component_errors_low(accuracy_data) ==
    [c \in Components |->
        IF ErrorKey(c) \in DOMAIN accuracy_data THEN accuracy_data[ErrorKey(c)]
        ELSE <<1, 100>>]

\* _calculate_component_errors
_calculate_component_errors(accuracy_data) ==
    [c \in Components |->
        IF ErrorKey(c) \in DOMAIN accuracy_data THEN accuracy_data[ErrorKey(c)]
        ELSE <<1, 10>>]

\* the loop of lines 343-348 with the thresholds themselves rated
ScaledWeightsInclusive(weights, component_errors) ==
    [k \in DOMAIN weights |->
        IF k \in DOMAIN component_errors
        THEN IF RLe(component_errors[k], <<1, 20>>) THEN RMul(weights[k], <<11, 10>>)
             ELSE IF RLe(<<3, 20>>, component_errors[k]) THEN RMul(weights[k], <<9, 10>>)
             ELSE weights[k]
        ELSE weights[k]]

\* the loop of lines 343-348
ScaledWeights(weights, component_errors) ==
    [k \in DOMAIN weights |->
        IF k \in DOMAIN component_errors
        THEN IF RLt(component_errors[k], <<1, 20>>) THEN RMul(weights[k], <<11, 10>>)
             ELSE IF RLt(<<3, 20>>, component_errors[k]) THEN RMul(weights[k], <<9, 10>>)
             ELSE weights[k]
        ELSE weights[k]]

\* the weights as the loop of lines 343-348 leaves them
Unnormalised(weights) == weights

\* lines 351-353
NormalisedWeights(weights) ==
    LET total_weight == RSum(weights, DOMAIN weights)
    IN  IF RSign(total_weight) > 0
        THEN [k \in DOMAIN weights |-> RDiv(weights[k], total_weight)]
        ELSE weights

\* the weights in the middle of an update: scaled, not yet renormalised
update_weights_scaled(weights, recent_accuracy) ==
    ScaledWeights(weights, _calculate_component_errors(recent_accuracy))

\* update_weights: the new model_weights
update_weights(weights, recent_accuracy) ==
    NormalisedWeights(ScaledWeights(weights, _calculate_component_errors(recent_accuracy)))


-----------------------------------------------------------------------------
(* ForecastEngine.generate_forecast on one engine and one CacheManager     *)
(*                                                                         *)
(* generate_forecast is a coroutine on the asyncio event loop: it runs     *)
(* without interruption from one suspension point to the next.  It can     *)
(* suspend only inside the four redis calls (get/setex on the forecast and *)
(* on the seasonal key); the other awaits (_load_historical_data,          *)
(* _forecast_single_month, _run_monte_carlo) never suspend.  Each action   *)
(* below is one such uninterrupted run.  When the CacheManager is disabled *)
(* or unconnected its methods return at once, so the whole call is one     *)
(* run.                                                                    *)

Requests == 1..NumRequests

NoEntries == [k \in {} |-> 0]
NoMetadata ==
    [computation_time |-> 0, anomaly_count |-> 0, data_quality_score |-> RInt(0),
     model_weights |-> InitialWeights]
NoCacheData == [results |-> <<>>, metadata |-> NoMetadata]

\* a call that has not been made
NoCall ==
    [scenario |-> BaseScenario, historical_data |-> NoHist, data |-> "empty",
     scenario_hash |-> _generate_scenario_hash(BaseScenario), hit |-> FALSE,
     anomaly_count |-> 0, indices |-> FlatIndices, alias |-> FALSE,
     pending |-> NoCacheData, pending_seasonal |-> FlatIndices,
     outcome |-> "none", results |-> <<>>,
     metadata |-> NoMetadata, overlap |-> {}, served_for |-> BaseScenario]

\* `if not self.enabled or not self.redis: return` of every CacheManager method
CacheOn == enabled /\ redis

InFlight(r) == pc[r] \notin {"idle", "done"}

\* lines 401-402: len(anomaly_periods) of detect_anomalies, which returns no
\* periods for fewer than 10 rows
AnomalyCount(data) == IF Len(data.rows) < 10 THEN 0 ELSE data.anomalies
\* detect_anomalies raises (the exception leaves generate_forecast, line 452)
DetectRaises(data) == Len(data.rows) >= 10 /\ data.detect_raises

\* lines 476-481: <<indices, alias>>; fit returns self.seasonal_indices itself
\* (alias), the fallback a fresh dict
NeedsFit(data) == Len(data.rows) >= 24

\* cache_data built before the months are appended and the metadata assembled
PartialCacheData(forecast_results, metadata) ==
    [results |-> <<>>, metadata |-> NoMetadata]

\* lines 441-444: cache_data
ForecastCacheData(forecast_results, metadata) ==
    [results |-> forecast_results, metadata |-> metadata]

\* a hit that returns the cached months without the cached metadata
CachedReturnFreshMetadata(cached_result) ==
    [results |-> cached_result.results, metadata |-> NoMetadata]

\* line 399: what a cache hit returns
CachedReturn(cached_result) ==
    [results |-> cached_result.results, metadata |-> cached_result.metadata]

\* lines 432-438
Metadata(elapsed, anomaly_count, data, weights) ==
    [computation_time |-> elapsed, anomaly_count |-> anomaly_count,
     data_quality_score |-> _calculate_data_quality_score(data),
     model_weights |-> weights]

\* lines 425-430: the Monte Carlo bands, when iterations are asked for
WithBands(scenario, base_metrics, forecast_results, draws) ==
    IF scenario.monte_carlo_iterations > 0
    THEN _apply_confidence_intervals(forecast_results,
            run_forecast_simulation(BaseScenarioDict(scenario, base_metrics), draws))
    ELSE forecast_results

\* lines 410-430 for the base metrics of line 408
ForecastFrom(scenario, base_metrics, indices, draws) ==
    WithBands(scenario, base_metrics, ForecastMonths(scenario, base_metrics, indices),
              draws)

\* lines 407-444: base metrics, the months, Monte Carlo and its bands, metadata
ComputeForecast(scenario, data, indices, anomaly_count, draws, elapsed, weights) ==
    ForecastCacheData(
        ForecastFrom(scenario, _calculate_base_metrics(data.rows), indices, draws),
        Metadata(elapsed, anomaly_count, data, weights))

\* what one run of lines 407-438 draws and how long it is measured to take:
\* the runs explored are a quick one whose iterations all draw low, and a
\* slow one whose last iteration draws high
EngineRuns(scenario) ==
    {[draws |-> [i \in 1..scenario.monte_carlo_iterations |->
                    IF slow /\ i = scenario.monte_carlo_iterations
                    THEN Draw(<<1, 2>>, <<11, 10>>, <<21, 20>>)
                    ELSE Draw(<<-1, 2>>, <<9, 10>>, <<19, 20>>)],
      elapsed |-> IF slow THEN 2 ELSE 1] : slow \in BOOLEAN}
\* the frames a call with argument h can work on
FramesOf(h) == IF h = NoHist THEN SampleHists ELSE {h}
\* requests are numbered in the order their calls start
Arrived(r) == \A o \in Requests : o < r => pc[o] # "idle"

\* the seasonal indices a suspended or running call reads through its
\* decomposition dict
IndicesOf(rq, shared) == IF rq.alias THEN shared ELSE rq.indices

Returned(rq, cache_data) ==
    [rq EXCEPT !.outcome = "returned", !.results = cache_data.results,
               !.metadata = cache_data.metadata]

ComputeSteps == {"projection", "monte_carlo", "metadata"}


\* redis.setex(key, ttl, value): the key's entry is replaced
Put(store, key, entry) ==
    [k \in DOMAIN store \cup {key} |-> IF k = key THEN entry ELSE store[k]]

\* the entry cache_forecast_result writes (ttl = ttl or self.default_ttl);
\* scenario records, beside the redis value, the scenario of the writing call
ForecastEntry(rq) == [value |-> rq.pending, ttl |-> CACHE_TTL, scenario |-> rq.scenario]
\* the entry cache_seasonal_patterns writes
SeasonalEntry(rq) == [value |-> rq.pending_seasonal, ttl |-> CACHE_TTL]

\* the arguments of a new call; d is the frame _load_historical_data returns
\* when historical_data is None
NewCall(s, h, d) ==
    [NoCall EXCEPT !.scenario = s, !.historical_data = h,
                   !.data = IF h = NoHist THEN d ELSE h,
                   !.scenario_hash = _generate_scenario_hash(s),
                   !.overlap = {o \in Requests : InFlight(o)}]

\* the decomposition of lines 476-481: the fitted indices, or the flat fallback
Decomposed(data) == IF NeedsFit(data) THEN data.seasonal ELSE FlatIndices

\* lines 404-448 with the cache off: decomposition, forecast, return
FinishUncached(r, rq, draws, elapsed) ==
    \E data \in {HistData(rq.data)} :
      \E cache_data \in {ComputeForecast(rq.scenario, data, Decomposed(data),
                                         AnomalyCount(data), draws, elapsed,
                                         model_weights)} :
        /\ seasonal_indices' = IF NeedsFit(data) THEN data.seasonal ELSE seasonal_indices
        /\ req' = [req EXCEPT ![r] =
                     Returned([rq EXCEPT !.anomaly_count = AnomalyCount(data),
                                         !.indices = Decomposed(data),
                                         !.alias = NeedsFit(data),
                                         !.pending = cache_data], cache_data)]
        /\ steps' = [steps EXCEPT ![r] =
                        {"anomaly", "seasonal", "cache_write"} \cup ComputeSteps]

\* generate_forecast with the CacheManager disabled or unconnected: one run
CallUncached(r, s, h, d, draws, elapsed) ==
    /\ pc[r] = "idle" /\ Arrived(r)
    /\ ~CacheOn
    /\ \E rq \in {NewCall(s, h, d)} :
           IF DetectRaises(HistData(rq.data))
           THEN /\ req' = [req EXCEPT ![r] = [rq EXCEPT !.outcome = "raised"]]
                /\ steps' = [steps EXCEPT ![r] = {"anomaly"}]
                /\ UNCHANGED seasonal_indices
           ELSE FinishUncached(r, rq, draws, elapsed)
    /\ pc' = [pc EXCEPT ![r] = "done"]
    /\ UNCHANGED <<enabled, redis, forecast_store, seasonal_store, model_weights,
                   updates, erl, helper>>

\* lines 387-396: up to the suspension in redis.get(forecast:<hash>)
CallCached(r, s, h, d) ==
    /\ pc[r] = "idle" /\ Arrived(r)
    /\ CacheOn
    /\ req' = [req EXCEPT ![r] = NewCall(s, h, d)]
    /\ pc' = [pc EXCEPT ![r] = "await_get_forecast"]
    /\ UNCHANGED <<enabled, redis, forecast_store, seasonal_store, model_weights,
                   seasonal_indices, updates, steps, erl, helper>>

\* lines 397-399: the read returned an entry
GetForecastHit(r) ==
    /\ pc[r] = "await_get_forecast"
    /\ req[r].scenario_hash \in DOMAIN forecast_store
    /\ req' = [req EXCEPT ![r] =
                 Returned([@ EXCEPT !.hit = TRUE,
                                    !.served_for =
                                        forecast_store[req[r].scenario_hash].scenario],
                          CachedReturn(forecast_store[req[r].scenario_hash].value))]
    /\ pc' = [pc EXCEPT ![r] = "done"]
    /\ UNCHANGED <<enabled, redis, forecast_store, seasonal_store, model_weights,
                   seasonal_indices, updates, steps, erl, helper>>

\* the read returned None (no entry, or the redis read or unpickling raised
\* and get_forecast_result logged it); lines 401-405 and cache.py 60-67 follow,
\* up to the suspension in redis.get(seasonal:<hash>)
GetForecastNone(r, failed) ==
    /\ pc[r] = "await_get_forecast"
    /\ failed \/ req[r].scenario_hash \notin DOMAIN forecast_store
    /\ \E data \in {HistData(req[r].data)} :
           IF DetectRaises(data)
           THEN /\ req' = [req EXCEPT ![r].outcome = "raised"]
                /\ pc' = [pc EXCEPT ![r] = "done"]
                /\ steps' = [steps EXCEPT ![r] = {"anomaly"}]
           ELSE /\ req' = [req EXCEPT ![r].anomaly_count = AnomalyCount(data)]
                /\ pc' = [pc EXCEPT ![r] = "await_get_seasonal"]
                /\ steps' = [steps EXCEPT ![r] = {"anomaly", "seasonal"}]
    /\ UNCHANGED <<enabled, redis, forecast_store, seasonal_store, model_weights,
                   seasonal_indices, updates, erl, helper>>

\* lines 407-445 up to the suspension in redis.setex(forecast:<hash>)
ToSetForecast(r, rq, draws, elapsed) ==
    \E cache_data \in {ComputeForecast(rq.scenario, HistData(rq.data),
                                       IndicesOf(rq, seasonal_indices), rq.anomaly_count,
                                       draws, elapsed, model_weights)} :
        /\ req' = [req EXCEPT ![r] = [rq EXCEPT !.pending = cache_data]]
        /\ pc' = [pc EXCEPT ![r] = "await_set_forecast"]
        /\ steps' = [steps EXCEPT ![r] = @ \cup ComputeSteps \cup {"cache_write"}]

\* lines 472-473: the seasonal read returned a cached decomposition
GetSeasonalHit(r, draws, elapsed) ==
    /\ pc[r] = "await_get_seasonal"
    /\ DataHash(HistData(req[r].data)) \in DOMAIN seasonal_store
    /\ ToSetForecast(r, [req[r] EXCEPT
                            !.indices = seasonal_store[DataHash(HistData(req[r].data))].value,
                            !.alias = FALSE], draws, elapsed)
    /\ UNCHANGED <<enabled, redis, forecast_store, seasonal_store, model_weights,
                   seasonal_indices, updates, erl, helper>>

\* lines 475-484: the seasonal read returned None; decomposition, then up to
\* the suspension in redis.setex(seasonal:<hash>) (the value is pickled before)
GetSeasonalNone(r, failed) ==
    /\ pc[r] = "await_get_seasonal"
    /\ failed \/ DataHash(HistData(req[r].data)) \notin DOMAIN seasonal_store
    /\ \E data \in {HistData(req[r].data)} :
           /\ seasonal_indices' = IF NeedsFit(data) THEN data.seasonal ELSE seasonal_indices
           /\ req' = [req EXCEPT ![r].indices = Decomposed(data),
                                 ![r].alias = NeedsFit(data),
                                 ![r].pending_seasonal = Decomposed(data)]
    /\ pc' = [pc EXCEPT ![r] = "await_set_seasonal"]
    /\ UNCHANGED <<enabled, redis, forecast_store, seasonal_store, model_weights,
                   updates, steps, erl, helper>>

\* cache_seasonal_patterns returned (written, or the write raised and was
\* logged); the forecast follows
SetSeasonalReply(r, ok, draws, elapsed) ==
    /\ pc[r] = "await_set_seasonal"
    /\ seasonal_store' = IF ok THEN Put(seasonal_store, DataHash(HistData(req[r].data)),
                                        SeasonalEntry(req[r]))
                         ELSE seasonal_store
    /\ ToSetForecast(r, req[r], draws, elapsed)
    /\ UNCHANGED <<enabled, redis, forecast_store, model_weights, seasonal_indices,
                   updates, erl, helper>>

\* a cache_forecast_result that lets the redis error reach generate_forecast
SetForecastReplyRaising(r, ok) ==
    /\ pc[r] = "await_set_forecast"
    /\ forecast_store' = IF ok THEN Put(forecast_store, req[r].scenario_hash,
                                        ForecastEntry(req[r]))
                         ELSE forecast_store
    /\ req' = [req EXCEPT ![r] = IF ok THEN Returned(@, @.pending)
                                 ELSE [@ EXCEPT !.outcome = "raised"]]
    /\ pc' = [pc EXCEPT ![r] = "done"]
    /\ UNCHANGED <<enabled, redis, seasonal_store, model_weights, seasonal_indices,
                   updates, steps, erl, helper>>

\* cache_forecast_result returned (written, or the write raised and was
\* logged); lines 447-448 return the forecast
SetForecastReply(r, ok) ==
    /\ pc[r] = "await_set_forecast"
    /\ forecast_store' = IF ok THEN Put(forecast_store, req[r].scenario_hash,
                                        ForecastEntry(req[r]))
                         ELSE forecast_store
    /\ req' = [req EXCEPT ![r] = Returned(@, @.pending)]
    /\ pc' = [pc EXCEPT ![r] = "done"]
    /\ UNCHANGED <<enabled, redis, seasonal_store, model_weights, seasonal_indices,
                   updates, steps, erl, helper>>

AwaitStates ==
    {"await_get_forecast", "await_get_seasonal", "await_set_seasonal", "await_set_forecast"}

\* the task is cancelled while suspended: CancelledError leaves the redis call
\* and generate_forecast (neither `except Exception` catches it); a setex
\* already sent may still have been applied by the server
Cancel(r, applied) ==
    /\ pc[r] \in AwaitStates
    /\ forecast_store' =
          IF pc[r] = "await_set_forecast" /\ applied
          THEN Put(forecast_store, req[r].scenario_hash, ForecastEntry(req[r]))
          ELSE forecast_store
    /\ seasonal_store' =
          IF pc[r] = "await_set_seasonal" /\ applied
          THEN Put(seasonal_store, DataHash(HistData(req[r].data)), SeasonalEntry(req[r]))
          ELSE seasonal_store
    /\ req' = [req EXCEPT ![r].outcome = "cancelled"]
    /\ pc' = [pc EXCEPT ![r] = "done"]
    /\ UNCHANGED <<enabled, redis, model_weights, seasonal_indices, updates, steps,
                   erl, helper>>

\* adaptive_model.update_weights(recent_accuracy): a plain function, one run
UpdateWeights(recent_accuracy) ==
    /\ Len(updates) < MaxUpdates
    /\ model_weights' = update_weights(model_weights, recent_accuracy)
    /\ updates' = Append(updates, recent_accuracy)
    /\ UNCHANGED <<enabled, redis, forecast_store, seasonal_store, seasonal_indices,
                   pc, req, steps, erl, helper>>

\* CacheManager.connect at startup, before requests are served: redis is set,
\* or the connection fails and the cache is disabled
Connect(ok) ==
    /\ enabled /\ ~redis
    /\ \A r \in Requests : pc[r] = "idle"
    /\ redis' = ok
    /\ enabled' = ok
    /\ UNCHANGED <<forecast_store, seasonal_store, model_weights, seasonal_indices,
                   updates, pc, req, steps, erl, helper>>

\* accuracy reports the engine runs receive
EngineAccuracy ==
    { [seasonal_error |-> <<1, 100>>, ml_error |-> <<1, 5>>] }

NoErlang == [phase |-> "none"]
NoFunction == [phase |-> "none"]

\* REDIS_AVAILABLE is a build-time flag (cache.py line 5)
Init ==
    /\ enabled \in BOOLEAN
    /\ redis = FALSE
    /\ forecast_store = NoEntries
    /\ seasonal_store = NoEntries
    /\ model_weights = InitialWeights
    /\ seasonal_indices = NoEntries
    /\ updates = <<>>
    /\ pc = [r \in Requests |-> "idle"]
    /\ req = [r \in Requests |-> NoCall]
    /\ steps = [r \in Requests |-> {}]
    /\ erl = NoErlang
    /\ helper = NoFunction

Next ==
    \/ \E ok \in BOOLEAN : Connect(ok)
    \/ \E r \in Requests, c \in EngineCalls :
          \E d \in FramesOf(c[2]), run \in EngineRuns(c[1]) :
              CallUncached(r, c[1], c[2], d, run.draws, run.elapsed)
    \/ \E r \in Requests, c \in EngineCalls :
          \E d \in FramesOf(c[2]) : CallCached(r, c[1], c[2], d)
    \/ \E r \in Requests : GetForecastHit(r)
    \/ \E r \in Requests, failed \in BOOLEAN : GetForecastNone(r, failed)
    \/ \E r \in Requests :
          \E run \in EngineRuns(req[r].scenario) :
              GetSeasonalHit(r, run.draws, run.elapsed)
    \/ \E r \in Requests, failed \in BOOLEAN : GetSeasonalNone(r, failed)
    \/ \E r \in Requests, ok \in BOOLEAN :
          \E run \in EngineRuns(req[r].scenario) :
              SetSeasonalReply(r, ok, run.draws, run.elapsed)
    \/ \E r \in Requests, ok \in BOOLEAN : SetForecastReply(r, ok)
    \/ \E r \in Requests, applied \in BOOLEAN : Cancel(r, applied)
    \/ \E acc \in EngineAccuracy : UpdateWeights(acc)

Spec == Init /\ [][Next]_vars

-----------------------------------------------------------------------------
(* Properties of generate_forecast                                         *)

\* a call that returned a forecast it computed itself (no cache hit)
ReturnedMiss(r) == pc[r] = "done" /\ req[r].outcome = "returned" /\ ~req[r].hit

\* months since year 0 of a <<year, month>> label or a date
MonthIndex(d) == 12 * d[1] + d[2] - 1

\* C1: a generate_forecast call that misses the cache and returns gives
\* exactly scenario.forecast_months monthly forecasts, the i-th labelled with
\* the calendar month i months after base_month; the labels are consecutive
\* and strictly increasing
C1_OnePerMonth ==
    \A r \in Requests :
        ReturnedMiss(r) =>
            /\ Len(req[r].results) = req[r].scenario.forecast_months
            /\ \A i \in 1..Len(req[r].results) :
                   /\ req[r].results[i].month[2] \in 1..12
                   /\ MonthIndex(req[r].results[i].month)
                         = MonthIndex(req[r].scenario.base_month) + i
            /\ \A i \in 1..(Len(req[r].results) - 1) :
                   MonthIndex(req[r].results[i + 1].month)
                     = MonthIndex(req[r].results[i].month) + 1

\* a computed two-month forecast whose labels cross the end of the year
C1_Witness ==
    \E r \in Requests :
        /\ ReturnedMiss(r)
        /\ Len(req[r].results) = 2
        /\ req[r].results[1].month = <<2026, 12>>
        /\ req[r].results[2].month = <<2027, 1>>

\* the second call was made after the first one ended, with the same
\* arguments, and both returned
Repeated(r1, r2) ==
    /\ r1 < r2 /\ pc[r1] = "done" /\ pc[r2] = "done"
    /\ req[r1].outcome = "returned" /\ req[r2].outcome = "returned"
    /\ r1 \notin req[r2].overlap
    /\ req[r2].scenario = req[r1].scenario
    /\ req[r2].historical_data = req[r1].historical_data
    /\ req[r1].historical_data # NoHist

\* C2: generate_forecast called twice with identical ScenarioParameters and
\* the same historical data returns the second time a ForecastRun identical
\* to the first (monthly forecasts, percentile bands, metadata), with the
\* cache enabled or disabled
C2_IdenticalSecondRun ==
    \A r1, r2 \in Requests :
        Repeated(r1, r2) =>
            /\ req[r2].results = req[r1].results
            /\ req[r2].metadata = req[r1].metadata

\* C3: a cached ForecastRun is only served to a scenario equal in every field
\* to the scenario of the call that produced it (two scenarios that differ in
\* a field have different fingerprints)
C3_ServedToEqualScenario ==
    \A r \in Requests :
        (pc[r] = "done" /\ req[r].hit) =>
            \A f \in ScenarioFields : req[r].scenario[f] = req[r].served_for[f]

\* the step in which call r gets an entry from its forecast read and returns
HitStep(r) == pc[r] = "await_get_forecast" /\ pc'[r] = "done" /\ req'[r].hit

\* C6: when the read of forecast:<fingerprint> gives the cached entry,
\* generate_forecast returns that entry's ForecastRun unchanged, and the call
\* runs no anomaly detection, seasonal decomposition, monthly projection or
\* Monte Carlo simulation and writes nothing to the cache
C6_HitReturnsCached ==
    [][\A r \in Requests :
          HitStep(r) =>
              /\ req'[r].outcome = "returned"
              /\ req'[r].results = forecast_store[req[r].scenario_hash].value.results
              /\ req'[r].metadata = forecast_store[req[r].scenario_hash].value.metadata
              /\ steps[r] = {} /\ steps'[r] = {}
              /\ forecast_store' = forecast_store
              /\ seasonal_store' = seasonal_store
              /\ seasonal_indices' = seasonal_indices]_vars

\* a call was served the two-month forecast another call had computed and
\* written, and ran no step of its own
C6_Witness ==
    \E r, w \in Requests :
        /\ pc[r] = "done" /\ req[r].hit /\ req[r].outcome = "returned"
        /\ steps[r] = {}
        /\ w # r /\ ReturnedMiss(w)
        /\ Len(req[r].results) = MaxMonths
        /\ req[r].results = req[w].results
        /\ req[r].metadata = req[w].metadata

\* a ForecastRun with every month of the scenario, the percentile bands
\* merged into each month and the metadata assembled
Complete(scenario, run) ==
    /\ Len(run.results) = scenario.forecast_months
    /\ \A i \in 1..Len(run.results) :
           /\ MonthIndex(run.results[i].month) = MonthIndex(scenario.base_month) + i
           /\ scenario.monte_carlo_iterations > 0 =>
                  /\ run.results[i].members_confidence # NoBand
                  /\ run.results[i].calls_confidence # NoBand
                  /\ run.results[i].staff_confidence # NoBand
    /\ run.metadata # NoMetadata
    /\ run.metadata.computation_time > 0

\* C7: in every reachable state, whatever calls were cancelled or raised,
\* every forecast:<fingerprint> entry in the cache is a complete ForecastRun
\* of the scenario of the call that wrote it, and a call writes it only
\* after all its computation steps
C7_OnlyCompleteEntries ==
    /\ \A k \in DOMAIN forecast_store :
           /\ forecast_store[k].ttl = CACHE_TTL
           /\ Complete(forecast_store[k].scenario, forecast_store[k].value)
    /\ \A r \in Requests :
           pc[r] = "await_set_forecast" =>
               /\ ComputeSteps \subseteq steps[r]
               /\ Complete(req[r].scenario, req[r].pending)

\* a call was cancelled while its forecast write was in flight, and the
\* entry the server applied is in the cache
C7_Witness ==
    \E r \in Requests :
        /\ pc[r] = "done" /\ req[r].outcome = "cancelled"
        /\ "cache_write" \in steps[r]
        /\ req[r].scenario_hash \in DOMAIN forecast_store
        /\ forecast_store[req[r].scenario_hash].value = req[r].pending
        /\ \A o \in Requests \ {r} : pc[o] = "idle"

\* the two calls were in flight at the same time with the same fingerprint
Concurrent(r1, r2) ==
    /\ r1 \in req[r2].overlap
    /\ pc[r2] # "idle"
    /\ req[r1].scenario_hash = req[r2].scenario_hash

\* C8: generate_forecast calls in flight together with one fingerprint share
\* one computation: the monthly projection and the Monte Carlo simulation
\* run in at most one of them, and the calls that return return the same
\* ForecastRun
C8_Coalesced ==
    \A r1, r2 \in Requests :
        Concurrent(r1, r2) =>
            /\ ~({"projection", "monte_carlo"} \subseteq steps[r1] \cap steps[r2])
            /\ (req[r1].outcome = "returned" /\ req[r2].outcome = "returned") =>
                   /\ req[r1].results = req[r2].results
                   /\ req[r1].metadata = req[r2].metadata

\* the weights after the updates us applied one after the other: each
\* component's initial weight times its factors, over the sum of these
Factor(recent_accuracy, c) ==
    IF ErrorKey(c) \notin DOMAIN recent_accuracy THEN RInt(1)
    ELSE IF RLt(recent_accuracy[ErrorKey(c)], <<1, 20>>) THEN <<11, 10>>
    ELSE IF RLt(<<3, 20>>, recent_accuracy[ErrorKey(c)]) THEN <<9, 10>>
    ELSE RInt(1)
RECURSIVE Scaled(_, _)
Scaled(us, c) ==
    IF us = <<>> THEN InitialWeights[c]
    ELSE RMul(Scaled(SubSeq(us, 1, Len(us) - 1), c), Factor(us[Len(us)], c))
SequentialWeights(us) ==
    [c \in Components |->
        RDiv(Scaled(us, c),
             RAdd(RAdd(Scaled(us, "seasonal"), Scaled(us, "trend")),
                  RAdd(Scaled(us, "growth"), Scaled(us, "ml_prediction"))))]

\* the call has taken its snapshot of the weights (line 437)
HasSnapshot(r) == "metadata" \in steps[r] /\ req[r].pending # NoCacheData

C10_CacheAside ==
    \A r \in Requests :
        pc[r] = "done" =>
            /\ req[r].outcome \in {"returned", "cancelled", "raised"}
            /\ req[r].outcome = "raised" => DetectRaises(HistData(req[r].data))
            /\ (req[r].outcome = "returned" /\ ~req[r].hit) =>
                   /\ Complete(req[r].scenario,
                               [results |-> req[r].results, metadata |-> req[r].metadata])
                   /\ ComputeSteps \subseteq steps[r]

\* with the cache connected, a call returned its forecast although neither
\* its seasonal write nor its forecast write reached the cache
C10_Witness ==
    \E r \in Requests :
        /\ CacheOn
        /\ ReturnedMiss(r)
        /\ Len(req[r].results) = MaxMonths
        /\ forecast_store = NoEntries
        /\ seasonal_store = NoEntries

-----------------------------------------------------------------------------
(* ErlangCStaffingModel.calculate_required_agents called on its own        *)

\* arguments: volumes from none to the float-overflow range, handle times
\* negative, zero, fractional and whole, service levels reachable and not
ErlangVolumes == {0, 1, 10, 100, 1227, 2577}
ErlangHandleTimes == {<<-1, 1>>, <<0, 1>>, <<1, 2>>, <<5, 1>>, <<6, 1>>}
ErlangServiceLevels == {<<1, 2>>, <<4, 5>>, <<3, 2>>}
ErlangAnswerTimes == {0, 20}
ErlangArgs ==
    [call_volume : ErlangVolumes, avg_handle_time : ErlangHandleTimes,
     target_service_level : ErlangServiceLevels, target_answer_time : ErlangAnswerTimes]

InitErlang ==
    /\ enabled = FALSE
    /\ redis = FALSE
    /\ forecast_store = NoEntries
    /\ seasonal_store = NoEntries
    /\ model_weights = InitialWeights
    /\ seasonal_indices = NoEntries
    /\ updates = <<>>
    /\ pc = [r \in Requests |-> "idle"]
    /\ req = [r \in Requests |-> NoCall]
    /\ steps = [r \in Requests |-> {}]
    /\ erl \in {[phase |-> "called", args |-> a] : a \in ErlangArgs}
    /\ helper = NoFunction

\* the call runs to its return statement
ErlangReturn ==
    /\ erl.phase = "called"
    /\ erl' = [phase |-> "returned", args |-> erl.args,
               result |-> calculate_required_agents(
                             erl.args.call_volume, erl.args.avg_handle_time,
                             erl.args.target_service_level, erl.args.target_answer_time)]
    /\ UNCHANGED <<enabled, redis, forecast_store, seasonal_store, model_weights,
                   seasonal_indices, updates, pc, req, steps, helper>>

NextErlang == ErlangReturn

SpecErlang == InitErlang /\ [][NextErlang]_vars

ErlangReturned == erl.phase = "returned"
\* agents > traffic_intensity and 0 <= utilization <= 1 for the returned triple
Stable(args, result) ==
    /\ RLt(TrafficIntensity(args.call_volume, args.avg_handle_time), RInt(result.agents))
    /\ RLe(RInt(0), result.utilization)
    /\ RLe(result.utilization, RInt(1))

-----------------------------------------------------------------------------
(* AdaptiveForecastModel.update_weights called on its own                  *)

\* errors below 0.05, between the thresholds, above 0.15
ErrorLevels == {<<1, 100>>, <<1, 10>>, <<1, 5>>}
\* recent_accuracy dicts: every key at every level, the empty dict, a dict
\* with a negative error and an unknown key, and dicts with errors exactly
\* at the thresholds 0.05 and 0.15
WeightReports ==
    [seasonal_error : ErrorLevels, trend_error : ErrorLevels,
     growth_error : ErrorLevels, ml_error : ErrorLevels]
    \cup {NoEntries, [trend_error |-> <<-1, 1>>, mape |-> <<1, 5>>],
          [seasonal_error |-> <<1, 20>>, trend_error |-> <<3, 20>>],
          [seasonal_error |-> <<1, 20>>, trend_error |-> <<1, 100>>,
           growth_error |-> <<3, 20>>, ml_error |-> <<1, 5>>]}

InitWeights ==
    /\ enabled = FALSE
    /\ redis = FALSE
    /\ forecast_store = NoEntries
    /\ seasonal_store = NoEntries
    /\ model_weights = InitialWeights
    /\ seasonal_indices = NoEntries
    /\ updates = <<>>
    /\ pc = [r \in Requests |-> "idle"]
    /\ req = [r \in Requests |-> NoCall]
    /\ steps = [r \in Requests |-> {}]
    /\ erl = NoErlang
    /\ helper = NoFunction

UpdateModel(recent_accuracy) ==
    /\ Len(updates) < MaxWeightUpdates
    /\ model_weights' = update_weights(model_weights, recent_accuracy)
    /\ updates' = Append(updates, recent_accuracy)
    /\ UNCHANGED <<enabled, redis, forecast_store, seasonal_store, seasonal_indices,
                   pc, req, steps, erl, helper>>

NextWeights == \E acc \in WeightReports : UpdateModel(acc)

SpecWeights == InitWeights /\ [][NextWeights]_vars

\* C5: starting from the weights (0.4, 0.3, 0.2, 0.1), after any finite
\* sequence of update_weights calls the four component weights sum to 1
C5_WeightsSumToOne ==
    /\ DOMAIN model_weights = Components
    /\ RSum(model_weights, Components) = RInt(1)

\* two updates have been applied and have moved the weights
C5_Witness ==
    /\ Len(updates) = MaxWeightUpdates
    /\ model_weights # InitialWeights
    /\ updates[1] # updates[2]

-----------------------------------------------------------------------------
(* Failure handling of generate_forecast                                   *)

\* a call that ran detect_anomalies itself on a frame the detector raises on
DetectionFailed(r) ==
    /\ pc[r] = "done"
    /\ ~req[r].hit
    /\ "anomaly" \in steps[r]
    /\ DetectRaises(HistData(req[r].data))

\* C11: anomaly detection is best-effort: a generate_forecast call whose
\* detect_anomalies raises on the historical data does not abort, it returns
\* a complete forecast (one result per forecast month) whose metadata has
\* anomaly_count = 0
C11_AnomalyBestEffort ==
    \A r \in Requests :
        DetectionFailed(r) =>
            /\ req[r].outcome = "returned"
            /\ Len(req[r].results) = req[r].scenario.forecast_months
            /\ req[r].metadata.anomaly_count = 0

-----------------------------------------------------------------------------
(* _erlang_c_probability called on its own                                 *)

\* everything but the helper call under test is as the constructors leave it
EngineIdle ==
    /\ enabled = FALSE
    /\ redis = FALSE
    /\ forecast_store = NoEntries
    /\ seasonal_store = NoEntries
    /\ model_weights = InitialWeights
    /\ seasonal_indices = NoEntries
    /\ updates = <<>>
    /\ pc = [r \in Requests |-> "idle"]
    /\ req = [r \in Requests |-> NoCall]
    /\ steps = [r \in Requests |-> {}]
    /\ erl = NoErlang

EngineUnchanged ==
    UNCHANGED <<enabled, redis, forecast_store, seasonal_store, model_weights,
                seasonal_indices, updates, pc, req, steps, erl>>

\* the helper function `name` has been called with args / has returned result
Called(name, args) == [phase |-> "called", name |-> name, args |-> args]
Return(result) ==
    [phase |-> "returned", name |-> helper.name, args |-> helper.args, result |-> result]
HelperReturned(name) == helper.phase = "returned" /\ helper.name = name

ErlangCAgents == {1, 2, 9, 10, 50, 100, 150, 170, 171, 200, 258, 300}
ErlangCTraffic ==
    {<<0, 1>>, <<1, 2>>, <<25, 3>>, <<409, 10>>, <<99, 1>>, <<1491, 10>>,
     <<1699, 10>>, <<2577, 10>>, <<2999, 10>>}

InitErlangC ==
    /\ EngineIdle
    /\ helper \in {Called("_erlang_c_probability", [agents |-> a, traffic |-> t]) :
                      a \in ErlangCAgents, t \in ErlangCTraffic}

\* the call runs to its return statement; overflow records whether the value
\* came from the except clause of lines 161-162
ErlangCProbabilityReturn ==
    /\ helper.phase = "called"
    /\ helper.name = "_erlang_c_probability"
    /\ helper' = Return([value |-> _erlang_c_probability(helper.args.agents,
                                                         helper.args.traffic),
                         overflow |-> ErlangOverflows(helper.args.agents,
                                                      helper.args.traffic)])
    /\ EngineUnchanged

NextErlangC == ErlangCProbabilityReturn

SpecErlangC == InitErlangC /\ [][NextErlangC]_vars

\* the Erlang-C probability of waiting for agents > traffic > 0, scaled, by
\* the Erlang-B recurrence: C = A*B / (A - T*(1 - B))
ErlangC(agents, traffic) ==
    LET eb == ErlangB(traffic[1], traffic[2], agents)
    IN  MulDiv(eb, agents * PScale,
               agents * PScale - (traffic[1] * (PScale - eb)) \div traffic[2])

\* C12: for every agents > traffic > 0, hundreds of agents included,
\* _erlang_c_probability returns the Erlang-C probability: no intermediate
\* term overflows and the value returned is never the substitute of the
\* except clause
C12_OverflowSafe ==
    (/\ HelperReturned("_erlang_c_probability")
     /\ RLt(RInt(0), helper.args.traffic)
     /\ RLt(helper.args.traffic, RInt(helper.args.agents)))
    => /\ ~helper.result.overflow
       /\ helper.result.value = ErlangC(helper.args.agents, helper.args.traffic)

-----------------------------------------------------------------------------
(* generate_forecast called once with the CacheManager disabled            *)
(* (REDIS_AVAILABLE = False, cache.py line 5, is the build's setting)      *)

\* valid scenarios at the ends of the StaffingParameters and growth ranges
BoundaryScenarios ==
    {[BaseScenario EXCEPT !.staffing_parameters.avg_handle_time = RInt(1)],
     [BaseScenario EXCEPT !.staffing_parameters.avg_handle_time = RInt(20)],
     [BaseScenario EXCEPT !.staffing_parameters.target_service_level = <<99, 100>>,
                          !.staffing_parameters.target_answer_time = 5],
     [BaseScenario EXCEPT !.member_growth_rate = RInt(-10)]}

UncachedScenarios ==
    {BaseScenario} \cup {Variant(field) : field \in ScenarioFields}
    \cup BoundaryScenarios

\* historical_data arguments: None, an empty frame, and frames of 12 and 24 rows
UncachedHists == {NoHist, "empty", "short", "long", "broken"}

InitUncached ==
    /\ EngineIdle
    /\ helper = NoFunction

NextUncached ==
    \E s \in UncachedScenarios, h \in UncachedHists :
        \E d \in FramesOf(h), run \in EngineRuns(s) :
            CallUncached(1, s, h, d, run.draws, run.elapsed)

SpecUncached == InitUncached /\ [][NextUncached]_vars

\* the monthly forecasts a call returned
ResultsOf(r) == IF req[r].outcome = "returned" THEN req[r].results ELSE <<>>

\* C13: in every monthly forecast generate_forecast produces for a valid
\* scenario, predicted_calls > 0 implies required_staff >= 1
C13_StaffForCalls ==
    \A r \in Requests :
        \A i \in 1..Len(ResultsOf(r)) :
            ResultsOf(r)[i].predicted_calls > 0 => ResultsOf(r)[i].required_staff >= 1

\* a returned forecast with a month of positive call volume that is staffed,
\* next to a month without calls (a negative seasonal multiplier) and no staff
C13_Witness ==
    \E r \in Requests :
        /\ \E i \in 1..Len(ResultsOf(r)) :
               /\ ResultsOf(r)[i].predicted_calls > 0
               /\ ResultsOf(r)[i].required_staff >= 1
        /\ \E i \in 1..Len(ResultsOf(r)) :
               /\ ResultsOf(r)[i].predicted_calls <= 0
               /\ ResultsOf(r)[i].required_staff = 0

-----------------------------------------------------------------------------
(* The Monte Carlo simulation and its bands on their own                   *)

\* what one iteration can draw: low, central and high values
MonteCarloDraws ==
    {Draw(<<-1, 2>>, <<9, 10>>, <<19, 20>>), Draw(RInt(0), RInt(1), RInt(1)),
     Draw(<<1, 2>>, <<11, 10>>, <<21, 20>>)}

\* the draws of 1 to MCIterations + 1 iterations
RECURSIVE DrawSequences(_)
DrawSequences(n) ==
    IF n = 0 THEN {<<>>}
    ELSE {Append(seq, d) : seq \in DrawSequences(n - 1), d \in MonteCarloDraws}

MonteCarloArgs ==
    {[scenario |-> s, base_metrics |-> _calculate_base_metrics(HistData(h).rows),
      draws |-> draws] :
        s \in {BaseScenario, Variant("forecast_months"), Variant("member_growth_rate")},
        h \in {"empty", "short"},
        draws \in UNION {DrawSequences(n) : n \in 1..(MCIterations + 1)}}

InitMonteCarlo ==
    /\ EngineIdle
    /\ helper \in {Called("run_forecast_simulation", a) : a \in MonteCarloArgs}

\* lines 425-428: _run_monte_carlo returns the percentiles of the simulation
SimulationReturn ==
    /\ helper.phase = "called"
    /\ helper.name = "run_forecast_simulation"
    /\ helper' = Return(run_forecast_simulation(
                            BaseScenarioDict(helper.args.scenario, helper.args.base_metrics),
                            helper.args.draws))
    /\ EngineUnchanged

\* lines 429-430: the percentiles are merged into the months' results
ApplyConfidenceIntervals ==
    /\ HelperReturned("run_forecast_simulation")
    /\ helper' = [phase |-> "returned", name |-> "_apply_confidence_intervals",
                  args |-> [confidence_intervals |-> helper.result],
                  result |-> _apply_confidence_intervals(
                                 ForecastMonths(helper.args.scenario,
                                                helper.args.base_metrics, FlatIndices),
                                 helper.result)]
    /\ EngineUnchanged

NextMonteCarlo == SimulationReturn \/ ApplyConfidenceIntervals

SpecMonteCarlo == InitMonteCarlo /\ [][NextMonteCarlo]_vars

\* the five percentiles of one metric and month are in order
PercentilesOrdered(p, month) ==
    /\ RLe(p.p10[month], p.p25[month])
    /\ RLe(p.p25[month], p.median[month])
    /\ RLe(p.median[month], p.p75[month])
    /\ RLe(p.p75[month], p.p90[month])

BandOrdered(band) ==
    band # NoBand => band.p10 <= band.p25 /\ band.p25 <= band.p75 /\ band.p75 <= band.p90

\* C14: for every month and every metric (members, calls, staff) the Monte
\* Carlo percentiles satisfy p10 <= p25 <= median <= p75 <= p90, and the
\* bands merged into each monthly forecast, truncated to integers, keep the
\* order p10 <= p25 <= p75 <= p90
C14_PercentilesOrdered ==
    /\ HelperReturned("run_forecast_simulation") =>
           \A key \in DOMAIN helper.result :
               \A month \in 1..Len(helper.result[key].p10) :
                   PercentilesOrdered(helper.result[key], month)
    /\ HelperReturned("_apply_confidence_intervals") =>
           \A i \in 1..Len(helper.result) :
               /\ BandOrdered(helper.result[i].members_confidence)
               /\ BandOrdered(helper.result[i].calls_confidence)
               /\ BandOrdered(helper.result[i].staff_confidence)

\* bands were merged from percentiles that are not integers (the truncation
\* acted) and that are spread out: p10 < p25 < p75 < p90 for the members
C14_Witness ==
    /\ HelperReturned("_apply_confidence_intervals")
    /\ \E i \in 1..Len(helper.result) :
           /\ helper.result[i].members_confidence # NoBand
           /\ helper.result[i].members_confidence.p10 < helper.result[i].members_confidence.p25
           /\ helper.result[i].members_confidence.p25 < helper.result[i].members_confidence.p75
           /\ helper.result[i].members_confidence.p75 < helper.result[i].members_confidence.p90
           /\ helper.args.confidence_intervals["predicted_members"].p10[i][2] # 1
           /\ BandOrdered(helper.result[i].calls_confidence)
           /\ helper.result[i].staff_confidence # NoBand

\* a call that ran the decomposition step on a frame of fewer than 24 rows
ShortSeries(r) ==
    /\ "seasonal" \in steps[r]
    /\ Len(HistData(req[r].data).rows) < 24

\* predicted_calls of a monthly result when the seasonal multiplier is 1
CallsAtUnitSeasonal(result, f) ==
    Trunc(RMul(RMul(RInt(result.predicted_members), result.calls_per_member),
               RMul(RMul(RMul(RMul(f.seasonal_factor, f.engagement_impact),
                              f.product_mix_impact), f.regulatory_impact),
                    _get_medicare_seasonal_multiplier(result.month[2]))))

\* C15: for a historical series of fewer than 24 observations (an empty one
\* included) the seasonal decomposition step does not fail and yields a
\* profile whose indices of the months 1..12 are all 0, so that the seasonal
\* multiplier of every forecast month is 1
C15_FlatProfile ==
    \A r \in Requests :
        ShortSeries(r) =>
            /\ req[r].outcome = "returned"
            /\ DOMAIN req[r].indices = 1..12
            /\ \A m \in 1..12 : req[r].indices[m] = RInt(0)
            /\ \A i \in 1..Len(req[r].results) :
                   req[r].results[i].predicted_calls
                     = CallsAtUnitSeasonal(req[r].results[i],
                                           req[r].scenario.call_volume_factors)

\* a forecast of two months was computed from an empty frame
C15_Witness ==
    \E r \in Requests :
        /\ ShortSeries(r)
        /\ HistData(req[r].data).rows = <<>>
        /\ Len(req[r].results) = 2
        /\ req[r].results[1].predicted_calls > 0

\* the fixed defaults of lines 489-495
DefaultBaseMetrics ==
    [base_members |-> RInt(10000), base_calls_per_member |-> <<3, 20>>,
     base_handle_time |-> <<31, 5>>, growth_trend |-> <<1, 40>>]

\* base metrics read off the last row of the observations (lines 497-506)
LastObservationMetrics(rows) ==
    [base_members |-> RInt(rows[Len(rows)].total_members),
     base_calls_per_member |->
         Rat(rows[Len(rows)].total_calls, Max(rows[Len(rows)].total_members, 1)),
     base_handle_time |-> rows[Len(rows)].avg_handle_time,
     growth_trend |-> _calculate_growth_trend(rows)]

\* the base metrics the forecast of call r is to be computed from: the
\* defaults when the caller supplied no observations (None, or an empty
\* frame), else those of the last observation supplied
SuppliedBaseMetrics(r) ==
    IF req[r].historical_data = NoHist \/ HistData(req[r].data).rows = <<>>
    THEN DefaultBaseMetrics
    ELSE LastObservationMetrics(HistData(req[r].historical_data).rows)

\* C16: when the caller supplies no historical observations the forecast is
\* computed from the fixed default base metrics (base_members 10000,
\* calls-per-member 0.15, handle time 6.2, growth trend 0.025); when
\* observations are supplied, from the base metrics of the last observation
C16_BaseMetrics ==
    \A r \in Requests :
        ReturnedMiss(r) =>
            \E run \in EngineRuns(req[r].scenario) :
                req[r].results = ForecastFrom(req[r].scenario, SuppliedBaseMetrics(r),
                                              req[r].indices, run.draws)

-----------------------------------------------------------------------------
(* _calculate_data_quality_score called on its own                         *)

QualityLengths == {0, 1, 2, 6, 11, 12, 13, 24}

\* outliers a numeric column of n rows can have: values above the 99th or
\* below the 1st percentile, i.e. its largest and its smallest value
OutlierCounts(n) == IF n <= 1 THEN {0} ELSE {0, 1, 2}

\* frames of len rows with their null cells and outliers counted
QualityFramesOf(len) ==
    {[rows |-> [i \in 1..len |-> Row(i, 1000, 100)], missing |-> nulls,
      outliers |-> <<o1, o2, o3>>] :
        nulls \in {0, len, 2 * len, NumColumns * len},
        o1 \in OutlierCounts(len), o2 \in OutlierCounts(len),
        o3 \in OutlierCounts(len)}

QualityFrames == UNION {QualityFramesOf(len) : len \in QualityLengths}

InitQuality ==
    /\ EngineIdle
    /\ helper \in {Called("_calculate_data_quality_score", [data |-> d]) :
                      d \in QualityFrames}

QualityScoreReturn ==
    /\ helper.phase = "called"
    /\ helper.name = "_calculate_data_quality_score"
    /\ helper' = Return(_calculate_data_quality_score(helper.args.data))
    /\ EngineUnchanged

NextQuality == QualityScoreReturn

SpecQuality == InitQuality /\ [][NextQuality]_vars

\* 40n times the unclamped score of a frame of n rows, n > 0:
\* 1.0 - 0.3 * missing/(4n) - 0.05 * (12 - n) (for n < 12) - 0.1 * outliers/n
QualityNumerator(data) ==
    40 * Len(data.rows) - 3 * data.missing
    - (IF Len(data.rows) < 12 THEN 2 * Len(data.rows) * (12 - Len(data.rows)) ELSE 0)
    - 4 * (data.outliers[1] + data.outliers[2] + data.outliers[3])

\* the score q is the clamped value of num / den, den > 0
ClampedTo(q, num, den) ==
    IF num <= 0 THEN q[1] = 0
    ELSE IF num >= den THEN q[1] = q[2]
    ELSE q[1] * den = num * q[2]

\* C17: for any shape of the historical data the data quality score lies in
\* [0, 1]; it is 0 for empty input, and otherwise 1.0 minus the missing-ratio
\* penalty (weight 0.3), the 0.05 per missing sample below 12 observations
\* and the outlier penalties (weight 0.1 per column), clamped to [0, 1]
C17_QualityScore ==
    HelperReturned("_calculate_data_quality_score") =>
        /\ helper.result[2] > 0
        /\ 0 <= helper.result[1] /\ helper.result[1] <= helper.result[2]
        /\ IF Len(helper.args.data.rows) = 0 THEN helper.result[1] = 0
           ELSE ClampedTo(helper.result, QualityNumerator(helper.args.data),
                          40 * Len(helper.args.data.rows))

\* a frame of 6 rows with null cells and outliers: the three penalties act
\* and the score is strictly between 0 and 1
C17_Witness ==
    /\ HelperReturned("_calculate_data_quality_score")
    /\ Len(helper.args.data.rows) = 6
    /\ helper.args.data.missing = 6
    /\ helper.args.data.outliers = <<2, 1, 0>>
    /\ helper.result = <<23, 40>>

-----------------------------------------------------------------------------
(* calculate_accuracy_metrics called on its own                            *)

\* a numpy float64: a number (exact rational), nan, or an infinity
Number(q) == [kind |-> "number", value |-> q]
NaN == [kind |-> "nan", value |-> RInt(0)]
Infinity(sign) == [kind |-> "inf", value |-> RInt(sign)]

\* numpy's num / den: 0/0 is nan and x/0 an infinity (a RuntimeWarning, no
\* exception)
FloatDiv(num, den) ==
    IF RSign(den) # 0 THEN Number(RDiv(num, den))
    ELSE IF RSign(num) = 0 THEN NaN
    ELSE Infinity(RSign(num))

\* x * k for a number k > 0
FloatScale(x, k) == IF x.kind = "number" THEN Number(RMul(x.value, k)) ELSE x

\* np.mean of the floats xs: nan if one of them is nan
FloatMean(xs) ==
    IF \E i \in 1..Len(xs) : xs[i].kind = "nan" THEN NaN
    ELSE IF \E i \in 1..Len(xs) : xs[i].kind = "inf"
    THEN Infinity((CHOOSE i \in 1..Len(xs) : xs[i].kind = "inf")[1])
    ELSE Number(RDiv(RSumRange([i \in 1..Len(xs) |-> xs[i].value], 1..Len(xs),
                               1, Len(xs)),
                     RInt(Len(xs))))

\* numpy broadcasting of two one-dimensional arrays: equal lengths, or one
\* of them of length 1 (else ValueError)
Broadcastable(actual, predicted) ==
    Len(actual) = Len(predicted) \/ Len(actual) = 1 \/ Len(predicted) = 1
BroadcastLen(actual, predicted) == Max(Len(actual), Len(predicted))
Elem(arr, i) == IF Len(arr) = 1 THEN arr[1] ELSE arr[i]

\* actual_arr - predicted_arr
Errors(actual, predicted) ==
    [i \in 1..BroadcastLen(actual, predicted) |-> Elem(actual, i) - Elem(predicted, i)]

\* the sum of the integers of seq
IntSum(seq) == RSumRange([i \in 1..Len(seq) |-> RInt(seq[i])], 1..Len(seq), 1, Len(seq))[1]

\* the mean of the integers of seq, Len(seq) > 0
IntMean(seq) == Rat(IntSum(seq), Len(seq))

\* line 700: np.clip(actual_arr, 1e-10, None) replaces every actual below
\* 1e-10 (for integers: below 1) by 1e-10; the result is
\* value + times_1e10 * 10^10
Mape(actual, predicted) ==
    LET n == BroadcastLen(actual, predicted)
        err == Errors(actual, predicted)
        regular == [i \in 1..n |->
                       IF Elem(actual, i) >= 1 THEN Rat(Abs(err[i]), Elem(actual, i))
                       ELSE RInt(0)]
        clipped == [i \in 1..n |->
                       IF Elem(actual, i) >= 1 THEN RInt(0) ELSE RInt(Abs(err[i]))]
    IN  [kind |-> "number",
         value |-> RMul(RDiv(RSumRange(regular, 1..n, 1, n), RInt(n)), RInt(100)),
         times_1e10 |-> RMul(RDiv(RSumRange(clipped, 1..n, 1, n), RInt(n)), RInt(100))]

\* line 703
Mae(actual, predicted) ==
    Number(IntMean([i \in 1..BroadcastLen(actual, predicted) |->
                       Abs(Errors(actual, predicted)[i])]))

\* line 706: the square root of root_of
Rmse(actual, predicted) ==
    [kind |-> "number",
     root_of |-> IntMean([i \in 1..BroadcastLen(actual, predicted) |->
                             Errors(actual, predicted)[i] * Errors(actual, predicted)[i]])]

\* line 709
Wmape(actual, predicted) ==
    FloatScale(FloatDiv(RInt(IntSum([i \in 1..BroadcastLen(actual, predicted) |->
                                        Abs(Errors(actual, predicted)[i])])),
                        RInt(IntSum(actual))),
               RInt(100))

\* lines 712-713
Smape(actual, predicted) ==
    FloatScale(
        FloatMean([i \in 1..BroadcastLen(actual, predicted) |->
                      FloatDiv(RInt(2 * Abs(Errors(actual, predicted)[i])),
                               RInt(Abs(Elem(actual, i)) + Abs(Elem(predicted, i))))]),
        RInt(100))

\* lines 716-718; ss_tot is taken over actual_arr alone
RSquared(actual, predicted) ==
    LET ss_res == IntSum([i \in 1..BroadcastLen(actual, predicted) |->
                             Errors(actual, predicted)[i] * Errors(actual, predicted)[i]])
        mean == IntMean(actual)
        dev == [i \in 1..Len(actual) |->
                   RMul(RSub(RInt(actual[i]), mean), RSub(RInt(actual[i]), mean))]
        ss_tot == RSumRange(dev, 1..Len(actual), 1, Len(actual))
    IN  IF RSign(ss_tot) # 0 THEN Number(RSub(RInt(1), RDiv(RInt(ss_res), ss_tot)))
        ELSE Number(RInt(0))

AccuracyFields == {"mape", "mae", "rmse", "wmape", "smape", "r_squared"}

\* calculate_accuracy_metrics on lists of integers: the AccuracyMetrics
\* returned, or the ValueError numpy raises on shapes it cannot broadcast
calculate_accuracy_metrics(actual, predicted) ==
    IF Len(actual) = 0 \/ Len(predicted) = 0
    THEN [raised |-> FALSE,
          mape |-> [kind |-> "number", value |-> RInt(0), times_1e10 |-> RInt(0)],
          mae |-> Number(RInt(0)),
          rmse |-> [kind |-> "number", root_of |-> RInt(0)],
          wmape |-> Number(RInt(0)), smape |-> Number(RInt(0)),
          r_squared |-> Number(RInt(0))]
    ELSE IF ~Broadcastable(actual, predicted) THEN [raised |-> TRUE]
    ELSE [raised |-> FALSE,
          mape |-> Mape(actual, predicted), mae |-> Mae(actual, predicted),
          rmse |-> Rmse(actual, predicted), wmape |-> Wmape(actual, predicted),
          smape |-> Smape(actual, predicted),
          r_squared |-> RSquared(actual, predicted)]

AccuracyValues == {-10, 0, 10}
\* the lists of up to two values, and the lists of three zeros and tens
AccuracyLists ==
    {<<>>} \cup {<<x>> : x \in AccuracyValues}
    \cup {<<x, y>> : x \in AccuracyValues, y \in AccuracyValues}
    \cup {<<x, y, z>> : x \in {0, 10}, y \in {0, 10}, z \in {0, 10}}

InitAccuracy ==
    /\ EngineIdle
    /\ helper \in {Called("calculate_accuracy_metrics",
                          [actual |-> a, predicted |-> p]) :
                      a \in AccuracyLists, p \in AccuracyLists}

AccuracyMetricsReturn ==
    /\ helper.phase = "called"
    /\ helper.name = "calculate_accuracy_metrics"
    /\ helper' = Return(calculate_accuracy_metrics(helper.args.actual,
                                                   helper.args.predicted))
    /\ EngineUnchanged

NextAccuracy == AccuracyMetricsReturn

SpecAccuracy == InitAccuracy /\ [][NextAccuracy]_vars

\* inputs on which a ratio of the metrics has no defined value: an empty
\* list, actual values that sum to zero, or a position where actual and
\* predicted are both zero
UndefinedDenominator(actual, predicted) ==
    \/ Len(actual) = 0 \/ Len(predicted) = 0
    \/ /\ Broadcastable(actual, predicted)
       /\ \/ IntSum(actual) = 0
          \/ \E i \in 1..BroadcastLen(actual, predicted) :
                 Elem(actual, i) = 0 /\ Elem(predicted, i) = 0

\* C18: calculate_accuracy_metrics never fails and never returns an
\* undefined value on undefined-denominator inputs: for empty actual or
\* predicted input, for actual values that sum to zero, and where actual and
\* predicted are both zero at a position, every metric returned (mape, mae,
\* rmse, wmape, smape, r_squared) is a well-defined number, and zero for
\* empty input
C18_MetricsDefined ==
    (/\ HelperReturned("calculate_accuracy_metrics")
     /\ UndefinedDenominator(helper.args.actual, helper.args.predicted))
    => /\ ~helper.result.raised
       /\ \A field \in AccuracyFields : helper.result[field].kind = "number"
       /\ (Len(helper.args.actual) = 0 \/ Len(helper.args.predicted) = 0)
              => /\ helper.result.mae.value = RInt(0)
                 /\ helper.result.wmape.value = RInt(0)
                 /\ helper.result.smape.value = RInt(0)
                 /\ helper.result.r_squared.value = RInt(0)

-----------------------------------------------------------------------------
(* calculate_segment_impact called on its own                              *)

\* member distributions: the four configured segments in the shares of
\* _forecast_single_month, uneven ones, one with a segment that is not
\* configured, an empty one and ones without members
SegmentTotals == {1, 3, 7, 1000, 10250}

SegmentDistributions ==
    {DefaultDistribution(total) : total \in SegmentTotals}
    \cup {[seg \in DOMAIN SEGMENT_CALL_RATES |-> RInt(0)],
          [seg \in {} |-> RInt(0)],
          [seg \in {"Unengaged"} |-> RInt(400)],
          [seg \in {"Highly Engaged", "Unengaged"} |->
              IF seg = "Unengaged" THEN RInt(100) ELSE RInt(300)],
          [seg \in {"Dual Eligible"} |-> RInt(250)],
          [seg \in {"Dual Eligible"} |-> RInt(0)],
          [seg \in {"Reactive Engagers", "Dual Eligible"} |->
              IF seg = "Dual Eligible" THEN RInt(50) ELSE RInt(150)],
          [seg \in DOMAIN SEGMENT_CALL_RATES \cup {"Dual Eligible"} |->
              IF seg = "Content & Complacent" THEN RInt(0) ELSE RInt(20)]}

SegmentAdjustmentSets ==
    {DefaultSegmentAdjustments,
     [DefaultSegmentAdjustments EXCEPT !.unengaged = RInt(20)],
     [DefaultSegmentAdjustments EXCEPT !.highly_engaged = RInt(-50)],
     [DefaultSegmentAdjustments EXCEPT !.content_complacent = <<5, 2>>,
                                       !.reactive_engagers = RInt(50)],
     [highly_engaged |-> RInt(10), reactive_engagers |-> RInt(-20),
      content_complacent |-> RInt(30), unengaged |-> RInt(-40)]}

InitSegment ==
    /\ EngineIdle
    /\ helper \in {Called("calculate_segment_impact",
                          [member_distribution |-> d, segment_adjustments |-> a]) :
                      d \in SegmentDistributions, a \in SegmentAdjustmentSets}

SegmentImpactReturn ==
    /\ helper.phase = "called"
    /\ helper.name = "calculate_segment_impact"
    /\ helper' = Return(calculate_segment_impact(helper.args.member_distribution,
                                                 helper.args.segment_adjustments))
    /\ EngineUnchanged

NextSegment == SegmentImpactReturn

SpecSegment == InitSegment /\ [][NextSegment]_vars

\* the base rate and the adjustment (in percent) a segment is to get: those
\* of the configured tables, 120 and 0 for any other segment
BaseRateOf(segment) ==
    CASE segment = "Highly Engaged" -> 85
      [] segment = "Reactive Engagers" -> 145
      [] segment = "Content & Complacent" -> 95
      [] segment = "Unengaged" -> 180
      [] OTHER -> 120
AdjustmentOf(segment, adjustments) ==
    CASE segment = "Highly Engaged" -> adjustments.highly_engaged
      [] segment = "Reactive Engagers" -> adjustments.reactive_engagers
      [] segment = "Content & Complacent" -> adjustments.content_complacent
      [] segment = "Unengaged" -> adjustments.unengaged
      [] OTHER -> RInt(0)

\* sum over the segments of base_rate * (1 + adjustment/100) * members
RECURSIVE WeightedRates(_, _, _)
WeightedRates(segments, distribution, adjustments) ==
    IF segments = {} THEN RInt(0)
    ELSE LET seg == CHOOSE s \in segments : TRUE
         IN  RAdd(RMul(RMul(RInt(BaseRateOf(seg)),
                            RAdd(RInt(1), RDiv(AdjustmentOf(seg, adjustments), RInt(100)))),
                       distribution[seg]),
                  WeightedRates(segments \ {seg}, distribution, adjustments))

RECURSIVE TotalMembers(_, _)
TotalMembers(segments, distribution) ==
    IF segments = {} THEN RInt(0)
    ELSE LET seg == CHOOSE s \in segments : TRUE
         IN  RAdd(distribution[seg], TotalMembers(segments \ {seg}, distribution))

\* C19: calculate_segment_impact returns (sum over segments of
\* base_rate * (1 + adjustment/100) * members / total_members) / 1000, with
\* rate 120 and adjustment 0 for a segment absent from the configured
\* tables, and 0 when the total membership is 0; for the shares
\* 0.25/0.35/0.25/0.15 of the four configured segments and zero adjustments
\* it is 0.12275 for every positive member total
C19_SegmentImpact ==
    HelperReturned("calculate_segment_impact") =>
        /\ IF RSign(TotalMembers(DOMAIN helper.args.member_distribution,
                                 helper.args.member_distribution)) = 0
           THEN helper.result = RInt(0)
           ELSE RMul(RMul(helper.result, RInt(1000)),
                     TotalMembers(DOMAIN helper.args.member_distribution,
                                  helper.args.member_distribution))
                  = WeightedRates(DOMAIN helper.args.member_distribution,
                                  helper.args.member_distribution,
                                  helper.args.segment_adjustments)
        /\ (/\ helper.args.segment_adjustments = DefaultSegmentAdjustments
            /\ \E total \in SegmentTotals :
                   helper.args.member_distribution = DefaultDistribution(total))
               => helper.result = Rat(12275, 100000)

\* the call of _forecast_single_month for 1000 members, without adjustments
C19_Witness ==
    /\ HelperReturned("calculate_segment_impact")
    /\ helper.args.member_distribution = DefaultDistribution(1000)
    /\ helper.args.segment_adjustments = DefaultSegmentAdjustments
    /\ helper.result = <<491, 4000>>

-----------------------------------------------------------------------------
(* The result of the agent search                                          *)

\* the service level 1 - ErlangC(A, T) * exp(-(A - T) * target_answer_time /
\* avg_handle_time) of agents > traffic, scaled
ServiceLevel(agents, traffic, avg_handle_time, target_answer_time) ==
    PScale - MulDiv(ErlangC(agents, traffic),
                    ExpNeg(RDiv(RMul(RSub(RInt(agents), traffic),
                                     RInt(target_answer_time)),
                                avg_handle_time)),
                    PScale)

\* the service level p (scaled) is at least the target
MeetsTarget(p, target_service_level) ==
    p * target_service_level[2] >= target_service_level[1] * PScale

\* a call with call_volume > 0 and avg_handle_time > 0 has returned, and its
\* search ended at the break of line 143: the last service level it
\* computed met the target
SearchMetTarget ==
    /\ ErlangReturned
    /\ erl.args.call_volume > 0
    /\ RSign(erl.args.avg_handle_time) > 0
    /\ MeetsTarget(erl.result.achieved_service_level, erl.args.target_service_level)

\* C20: for call_volume > 0 and avg_handle_time > 0, when the search ends
\* because the target is met, calculate_required_agents returns the minimal
\* integer A >= ceil(T) + 1 whose service level
\* 1 - ErlangC(A, T) * exp(-(A - T) * target_answer_time / avg_handle_time)
\* is at least target_service_level: the returned service level meets the
\* target and no smaller admissible agent count does
C20_MinimalAgents ==
    SearchMetTarget =>
        \E T \in {TrafficIntensity(erl.args.call_volume, erl.args.avg_handle_time)} :
            /\ erl.result.agents >= Ceil(T) + 1
            /\ MeetsTarget(ServiceLevel(erl.result.agents, T, erl.args.avg_handle_time,
                                        erl.args.target_answer_time),
                           erl.args.target_service_level)
            /\ \A A \in (Ceil(T) + 1)..(erl.result.agents - 1) :
                   ~MeetsTarget(ServiceLevel(A, T, erl.args.avg_handle_time,
                                             erl.args.target_answer_time),
                                erl.args.target_service_level)

\* a call with call_volume > 0 and avg_handle_time > 0 has returned after the
\* search ran out of its max_iterations passes: no service level it computed
\* met the target
SearchHitCap ==
    /\ ErlangReturned
    /\ erl.args.call_volume > 0
    /\ RSign(erl.args.avg_handle_time) > 0
    /\ ~MeetsTarget(erl.result.achieved_service_level, erl.args.target_service_level)

-----------------------------------------------------------------------------
(* One update_weights call                                                 *)

\* the step is an update_weights call; its argument is the last of updates'
UpdateStep == Len(updates') = Len(updates) + 1

\* the sum over the components of weight * factor of the report
ScaledTotal(weights, recent_accuracy) ==
    RAdd(RAdd(RMul(weights["seasonal"], Factor(recent_accuracy, "seasonal")),
              RMul(weights["trend"], Factor(recent_accuracy, "trend"))),
         RAdd(RMul(weights["growth"], Factor(recent_accuracy, "growth")),
              RMul(weights["ml_prediction"], Factor(recent_accuracy, "ml_prediction"))))

\* C22: one update_weights call multiplies the weight of each tracked
\* component by 1.1 if its error is < 0.05, by 0.9 if it is > 0.15 and by
\* nothing otherwise (errors exactly 0.05 or 0.15, and errors not supplied,
\* which default to 0.1), then divides every weight by the new total; other
\* keys of the report are ignored and the set of components never changes
C22_UpdateRule ==
    [][UpdateStep =>
          /\ DOMAIN model_weights' = Components
          /\ \A c \in Components :
                 RMul(model_weights'[c],
                      ScaledTotal(model_weights, updates'[Len(updates')]))
                   = RMul(model_weights[c], Factor(updates'[Len(updates')], c))]_vars

\* an update with the seasonal error exactly 0.05 and the growth error
\* exactly 0.15 (both unmultiplied), the trend rated up and ml rated down
C22_Witness ==
    /\ Len(updates) = 1
    /\ updates[1] = [seasonal_error |-> <<1, 20>>, trend_error |-> <<1, 100>>,
                     growth_error |-> <<3, 20>>, ml_error |-> <<1, 5>>]
    /\ model_weights["seasonal"] = <<20, 51>>
    /\ model_weights["trend"] = <<11, 34>>

-----------------------------------------------------------------------------
(* The draws of one Monte Carlo iteration                                  *)

\* values np.random.normal can return for the growth noise (percentage
\* points) and for the two multipliers
GrowthNoise == {<<-1, 2>>, RInt(0), <<1, 2>>}
MultiplierNoise == {<<1, 2>>, <<9, 10>>, RInt(1), <<11, 10>>, RInt(2)}

\* the iteration's trajectory of one metric under one draw
Trajectory(base_scenario, draw, key) ==
    [month \in 1..base_scenario.forecast_months |->
        _single_iteration(ModifiedScenario(base_scenario, draw))[month][key]]

\* two iterations that differ only in the growth noise, in the seasonality
\* multiplier, in the handle-time multiplier
MembersFollowGrowth(base_scenario) ==
    \E g1, g2 \in GrowthNoise :
        Trajectory(base_scenario, Draw(g1, RInt(1), RInt(1)), "predicted_members")
            # Trajectory(base_scenario, Draw(g2, RInt(1), RInt(1)), "predicted_members")
CallsFollowSeasonality(base_scenario) ==
    \E s1, s2 \in MultiplierNoise :
        Trajectory(base_scenario, Draw(RInt(0), s1, RInt(1)), "predicted_calls")
            # Trajectory(base_scenario, Draw(RInt(0), s2, RInt(1)), "predicted_calls")
StaffFollowsHandleTime(base_scenario) ==
    \E h1, h2 \in MultiplierNoise :
        Trajectory(base_scenario, Draw(RInt(0), RInt(1), h1), "required_staff")
            # Trajectory(base_scenario, Draw(RInt(0), RInt(1), h2), "required_staff")
\* line 275: the staff of every month is at its floor of 1 under every draw
StaffAtFloor(base_scenario) ==
    \A h \in MultiplierNoise :
        \A month \in 1..base_scenario.forecast_months :
            Trajectory(base_scenario, Draw(RInt(0), RInt(1), h), "required_staff")[month] = 1

SimulationBase == BaseScenarioDict(helper.args.scenario, helper.args.base_metrics)

\* C23: in each Monte Carlo iteration the three draws are applied to the
\* projection: the member trajectory depends on the growth noise, the call
\* trajectory on the seasonality multiplier and the staff trajectory on the
\* handle-time multiplier (two iterations that differ in one draw only can
\* differ in the corresponding metric; the staff may sit at its floor of 1)
C23_DrawsApplied ==
    helper.name = "run_forecast_simulation" =>
        /\ MembersFollowGrowth(SimulationBase)
        /\ CallsFollowSeasonality(SimulationBase)
        /\ StaffFollowsHandleTime(SimulationBase) \/ StaffAtFloor(SimulationBase)

-----------------------------------------------------------------------------
(* SeasonalDecompositionModel.fit called repeatedly on one instance        *)

MaxFits == 3

\* series passed to fit: decomposes says whether seasonal_decompose and the
\* month selection succeed (at least two periods of observations under a
\* DatetimeIndex), months the calendar months the index covers, seasonal the
\* mean of the seasonal component per covered month
FitSeries(id) ==
    CASE id = "two_years" ->
            [decomposes |-> TRUE, months |-> 1..12, seasonal |-> HistData("long").seasonal]
      [] id = "three_years" ->
            [decomposes |-> TRUE, months |-> 1..12,
             seasonal |-> [m \in 1..12 |-> IF m = 6 THEN RInt(40)
                                           ELSE IF m = 7 THEN RInt(-40) ELSE RInt(0)]]
      [] id = "winter_days" ->
            [decomposes |-> TRUE, months |-> {1, 2},
             seasonal |-> [m \in 1..12 |-> IF m = 1 THEN RInt(3) ELSE RInt(-3)]]
      [] id = "one_year" ->
            [decomposes |-> FALSE, months |-> 1..12, seasonal |-> FlatIndices]
      [] id = "no_dates" ->
            [decomposes |-> FALSE, months |-> {}, seasonal |-> FlatIndices]

FitSeriesIds == {"two_years", "three_years", "winter_days", "one_year", "no_dates"}

\* lines 64-68: self.seasonal_indices after fit(data); the loop assigns the
\* keys of the months the index covers and leaves the other keys as they are
FittedIndices(indices, data) ==
    IF data.decomposes
    THEN [m \in DOMAIN indices \cup data.months |->
             IF m \in data.months THEN data.seasonal[m] ELSE indices[m]]
    ELSE indices

\* lines 70-79: the dict fit returns; under 'seasonal_indices' it holds the
\* instance's own dict (alias), or the fresh dict of _simple_seasonal_pattern
FitResult(id) ==
    IF FitSeries(id).decomposes
    THEN [data |-> id, alias |-> TRUE, seasonal_indices |-> NoEntries]
    ELSE [data |-> id, alias |-> FALSE, seasonal_indices |-> FlatIndices]

\* what a result's 'seasonal_indices' reads as, the instance's dict being shared
ResultIndices(result, shared) ==
    IF result.alias THEN shared ELSE result.seasonal_indices

\* helper.args.held: the results of the earlier fit calls, still held by
\* their callers
InitFit ==
    /\ EngineIdle
    /\ helper = [phase |-> "returned", name |-> "__init__", args |-> [held |-> <<>>],
                 result |-> NoEntries]

Fit(id) ==
    /\ Len(helper.args.held) < MaxFits
    /\ seasonal_indices' = FittedIndices(seasonal_indices, FitSeries(id))
    /\ helper' = [phase |-> "returned", name |-> "fit",
                  args |-> [held |-> Append(helper.args.held, FitResult(id))],
                  result |-> FitResult(id)]
    /\ UNCHANGED <<enabled, redis, forecast_store, seasonal_store, model_weights,
                   updates, pc, req, steps, erl>>

NextFit == \E id \in FitSeriesIds : Fit(id)

SpecFit == InitFit /\ [][NextFit]_vars

\* fit(data) on an instance that has fitted nothing before
FirstFitIndices(id) ==
    ResultIndices(FitResult(id), FittedIndices(NoEntries, FitSeries(id)))

\* C24: the decomposer is a pure transform: the seasonal_indices of every
\* result fit has returned on the instance, the latest one and the ones
\* returned before later fit calls, are those fit(d) gives on its own,
\* whatever fit calls preceded or followed
C24_FitPure ==
    helper.name = "fit" =>
        \A i \in 1..Len(helper.args.held) :
            ResultIndices(helper.args.held[i], seasonal_indices)
                = FirstFitIndices(helper.args.held[i].data)

-----------------------------------------------------------------------------
(* The TTLs of the cache entries                                           *)

\* C25: cache entries are written with the contract's TTLs: every
\* forecast:<fingerprint> entry with the default TTL, every
\* seasonal:<data_hash> entry with the longer TTL of 24 times the default
C25_EntryTTLs ==
    /\ \A k \in DOMAIN forecast_store : forecast_store[k].ttl = CACHE_TTL
    /\ \A k \in DOMAIN seasonal_store : seasonal_store[k].ttl = 24 * CACHE_TTL

-----------------------------------------------------------------------------
(* calculate_required_agents on degenerate inputs                          *)

DegenerateVolumes == {-5, 0, 1, 10}
DegenerateHandleTimes == {<<-1, 1>>, <<0, 1>>, <<1, 2>>, <<6, 1>>}
\* values of traffic_intensity at line 120: a positive product, and the 0.0
\* the float product of line 118 underflows to when avg_handle_time is
\* positive and denormal
DegenerateTraffic == {<<0, 1>>, <<1, 10>>, <<1, 1>>}

DegenerateArgs ==
    [call_volume : DegenerateVolumes, avg_handle_time : DegenerateHandleTimes,
     target_service_level : ErlangServiceLevels, target_answer_time : ErlangAnswerTimes]
TrafficArgs ==
    [traffic_intensity : DegenerateTraffic,
     avg_handle_time : {h \in DegenerateHandleTimes : RSign(h) > 0},
     target_service_level : ErlangServiceLevels, target_answer_time : ErlangAnswerTimes]

InitDegenerate ==
    /\ EngineIdle
    /\ helper \in {Called("calculate_required_agents", a) : a \in DegenerateArgs}
                  \cup {Called("traffic_intensity", a) : a \in TrafficArgs}

\* the call runs from line 114 to its return statement
RequiredAgentsReturn ==
    /\ helper.phase = "called"
    /\ helper.name = "calculate_required_agents"
    /\ helper' = Return(calculate_required_agents(
                            helper.args.call_volume, helper.args.avg_handle_time,
                            helper.args.target_service_level,
                            helper.args.target_answer_time))
    /\ EngineUnchanged

\* the call runs from line 120, with both inputs positive and the traffic
\* intensity as computed, to its return statement
TrafficBranchReturn ==
    /\ helper.phase = "called"
    /\ helper.name = "traffic_intensity"
    /\ helper' = Return(StaffingFor(helper.args.traffic_intensity,
                                    helper.args.avg_handle_time,
                                    helper.args.target_service_level,
                                    helper.args.target_answer_time))
    /\ EngineUnchanged

NextDegenerate == RequiredAgentsReturn \/ TrafficBranchReturn

SpecDegenerate == InitDegenerate /\ [][NextDegenerate]_vars

\* C26: calculate_required_agents returns (0, 0, 0) whenever call_volume <= 0
\* or avg_handle_time <= 0, and (1, 0, 1) whenever the traffic intensity is
\* <= 0 with both inputs positive; the triple is returned whatever the
\* targets, without a search for agents
C26_DegenerateCases ==
    /\ (/\ HelperReturned("calculate_required_agents")
        /\ helper.args.call_volume <= 0 \/ RSign(helper.args.avg_handle_time) <= 0)
           => helper.result = [agents |-> 0, utilization |-> RInt(0),
                               achieved_service_level |-> 0]
    /\ (/\ HelperReturned("traffic_intensity")
        /\ RSign(helper.args.traffic_intensity) <= 0)
           => helper.result = [agents |-> 1, utilization |-> RInt(0),
                               achieved_service_level |-> PScale]

\* a call with both inputs positive whose traffic intensity came out as 0.0
\* has returned one agent
C26_Witness ==
    /\ HelperReturned("traffic_intensity")
    /\ helper.args.traffic_intensity = <<0, 1>>
    /\ helper.result.agents = 1

-----------------------------------------------------------------------------
(* The sign of the monthly forecast                                        *)

\* C27: in every MonthlyForecast produced for a valid scenario and any
\* historical data, predicted_calls >= 0 and predicted_members >= 0, whatever
\* seasonal indices the decomposition produced
C27_NonNegativeForecast ==
    \A r \in Requests :
        req[r].outcome = "returned" =>
            \A i \in 1..Len(req[r].results) :
                /\ req[r].results[i].predicted_calls >= 0
                /\ req[r].results[i].predicted_members >= 0

-----------------------------------------------------------------------------
(* The data a returned forecast was computed from                          *)

\* the months lines 404-430 compute from the frame data
ComputedFrom(scenario, data, results) ==
    \E run \in EngineRuns(scenario) :
        results = ForecastFrom(scenario, _calculate_base_metrics(data.rows),
                               Decomposed(data), run.draws)

\* C28: the ForecastRun returned by generate_forecast(scenario, h) is always
\* one computed from the historical data h passed in that call: with the
\* cache enabled, a call with the same scenario but different historical data
\* does not return a result computed from the earlier data
C28_ComputedFromPassedData ==
    \A r \in Requests :
        (pc[r] = "done" /\ req[r].outcome = "returned") =>
            ComputedFrom(req[r].scenario, HistData(req[r].data), req[r].results)

-----------------------------------------------------------------------------
(* Updates that rate every component alike                                 *)

\* the band of an error: below 0.05, above 0.15, or within [0.05, 0.15]
\* (where an error that is not supplied, 0.1 by default, falls)
ErrorBand(recent_accuracy, c) ==
    IF ErrorKey(c) \notin DOMAIN recent_accuracy THEN "within"
    ELSE IF RLt(recent_accuracy[ErrorKey(c)], <<1, 20>>) THEN "below"
    ELSE IF RLt(<<3, 20>>, recent_accuracy[ErrorKey(c)]) THEN "above"
    ELSE "within"

SameBand(recent_accuracy) ==
    \A c1, c2 \in Components :
        ErrorBand(recent_accuracy, c1) = ErrorBand(recent_accuracy, c2)

\* C29: an update_weights call in which all four components fall in the same
\* band (all errors < 0.05, all > 0.15, or all within [0.05, 0.15], as for an
\* empty accuracy input) leaves every weight unchanged after renormalisation;
\* weights change only when components are rated differently, and every
\* weight is strictly positive after every update
C29_SameBandNoChange ==
    [][UpdateStep =>
          /\ SameBand(updates'[Len(updates')]) => model_weights' = model_weights
          /\ \A c \in Components : RSign(model_weights'[c]) > 0]_vars

\* after an update that moved the weights, an update whose two supplied
\* errors sit on the thresholds and whose other two are absent has left the
\* weights as they were
C29_Witness ==
    /\ Len(updates) = 2
    /\ ~SameBand(updates[1])
    /\ updates[2] = [seasonal_error |-> <<1, 20>>, trend_error |-> <<3, 20>>]
    /\ model_weights = SequentialWeights(<<updates[1]>>)
    /\ model_weights # InitialWeights

-----------------------------------------------------------------------------
(* Independence of the Monte Carlo iterations                              *)

\* the sample of one metric and month: one value per iteration, each from
\* the base scenario with that iteration's draw alone
IndependentSample(base_scenario, draws, key, month) ==
    [i \in 1..Len(draws) |-> Trajectory(base_scenario, draws[i], key)[month]]

=============================================================================
